---------------------------- MODULE Spec2Model ----------------------------
(***************************************************************************)
(* A model of the selection and ranking pipeline of code-digest:           *)
(*   - src/core/prioritizer.rs : prioritize_files, its structure overhead, *)
(*     the parallel token count and the budgeted selection,                *)
(*     adjust_priorities_for_dependencies (Phase A) and                    *)
(*     group_by_directory;                                                 *)
(*   - src/core/walker.rs : sanitize_pattern, build_walker, the            *)
(*     compilation of custom-priority patterns, calculate_priority, and    *)
(*     walk_directory with process_file, sequential and parallel;          *)
(*   - src/core/semantic/analyzer.rs : SemanticContext;                    *)
(*   - src/core/semantic/parallel_analyzer.rs : analyze_files and          *)
(*     analyze_single_file with the semantic cache, process_imports;       *)
(*   - the dependency graph built from the analysis results.               *)
(*                                                                         *)
(* Conventions.                                                            *)
(*   Priorities are f32 in the source.  The model keeps them as integers   *)
(*   in hundredths (2.0 is 200) and draws them from multiples of 0.05, so  *)
(*   that 0.2 x priority is an exact integer; NaN is not a value of the    *)
(*   model (the data model of the program keeps priorities finite).        *)
(*   An absolute path is a natural number (the identity of a file); a      *)
(*   relative path is the rank of the path in ascending byte order, so     *)
(*   that PathBuf's cmp is the order of the naturals.                      *)
(*   A pattern is a run-length encoded string: a sequence of runs          *)
(*   <<code point, count>>.                                                *)
(***************************************************************************)
EXTENDS Integers, Sequences, FiniteSets, TLC

VARIABLES
    \* ---- prioritize_files ----
    input,              \* the Vec<FileInfo> handed to prioritize_files
    options,            \* the ContextOptions handed to prioritize_files
    disk,               \* path -> what reading and counting the file yields
    pc,                 \* position of the call
    files,              \* the working set (after Phase A)
    structure_overhead, \* result of calculate_structure_overhead
    results,            \* the collected Vec of the parallel map, one slot a file
    files_with_tokens,  \* the sorted candidates of Phase 2
    cursor,             \* position of the selection loop in files_with_tokens
    selected_files,     \* the admitted files, in admission order
    total_tokens,       \* the running token total
    workers,            \* indices of the parallel map's items still running
    reordered,          \* some item finished while an earlier one still ran
    loads,              \* paths read through the cache and counted
    \* ---- walker ----
    wpc,                \* position of the walker
    pattern,            \* the argument of sanitize_pattern
    sanitized,          \* the result of sanitize_pattern
    walk_options,       \* the pattern lists of the configuration
    compiled,           \* the globs handed to a glob compiler, in order
    walk_error,         \* the error walk_directory returned
    failed_on,          \* the pattern that error is about
    \* ---- calculate_priority ----
    cp_args,            \* file type, relative path and custom-priority rules
    cp_result,          \* the priority calculate_priority returned
    \* ---- walk_directory ----
    root,               \* what the root path is: a directory or a file
    entries,            \* the entries under the root, in walk order
    walk_limits,        \* max_file_size, filter_binary_files, parallel
    walk_pos,           \* entries of the tree already visited
    walk_files,         \* the Vec<FileInfo> collected so far
    first_walk,         \* the outcome of an earlier walk of the same tree
    \* ---- SemanticContext ----
    chain,              \* the contexts from the seed to the current file
    last_call,          \* the last call of child_context and its result
    \* ---- ParallelAnalyzer ----
    apc,                \* position of analyze_files
    an_files,           \* the files handed to analyze_files
    an_disk,            \* path -> what the registry and the disk hold
    an_options,         \* the AnalysisOptions of the call and of self
    semantic_cache,     \* (path, content hash) -> cached AnalysisResult
    an_workers,         \* one worker an item of the parallel map
    an_results,         \* the collected Vec, one slot an item
    an_errors,          \* the error collector, in arrival order
    \* ---- group_by_directory ----
    group_files,        \* the Vec<FileInfo> handed to group_by_directory
    groups,             \* the Vec<(String, Vec<FileInfo>)> it returned
    \* ---- process_imports ----
    imp_call,           \* importer, resolver, imports, disk and options
    imp_edges,          \* the typed edges of the file's result
    \* ---- dependency graph ----
    dg_imports,         \* file -> the resolved internal imports of its result
    dg_edges,           \* the edges added to the graph so far
    dg_pos,             \* analysed files iterated so far
    dg_nodes            \* the nodes, with imports and imported_by

pvars == <<input, options, disk, pc, files, structure_overhead, results,
           files_with_tokens, cursor, selected_files, total_tokens, workers,
           reordered, loads>>

wvars == <<wpc, pattern, sanitized, walk_options, compiled, walk_error,
           failed_on>>

cvars == <<cp_args, cp_result>>

dvars == <<root, entries, walk_limits, walk_pos, walk_files, first_walk>>

svars == <<chain, last_call>>

avars == <<apc, an_files, an_disk, an_options, semantic_cache, an_workers,
           an_results, an_errors>>

gvars == <<group_files, groups>>

ivars == <<imp_call, imp_edges>>

xvars == <<dg_imports, dg_edges, dg_pos, dg_nodes>>

\* What a step of one component leaves alone.
notp == <<wvars, cvars, dvars, svars, avars, gvars, ivars, xvars>>
notw == <<pvars, cvars, dvars, svars, avars, gvars, ivars, xvars>>
notc == <<pvars, wvars, dvars, svars, avars, gvars, ivars, xvars>>
notwd == <<pvars, cvars, svars, avars, gvars, ivars, xvars>>
nots == <<pvars, wvars, cvars, dvars, avars, gvars, ivars, xvars>>
nota == <<pvars, wvars, cvars, dvars, svars, gvars, ivars, xvars>>
notg == <<pvars, wvars, cvars, dvars, svars, avars, ivars, xvars>>
noti == <<pvars, wvars, cvars, dvars, svars, avars, gvars, xvars>>
notx == <<pvars, wvars, cvars, dvars, svars, avars, gvars, ivars>>

vars == <<pvars, wvars, cvars, dvars, svars, avars, gvars, ivars, xvars>>

-----------------------------------------------------------------------------
(* Bounds of the model *)

\* Longest generated input vector of prioritize_files.
MaxFiles == 3

-----------------------------------------------------------------------------
(* Helpers on sequences *)

Range(s) == {s[i] : i \in 1..Len(s)}

Min(a, b) == IF a <= b THEN a ELSE b

RECURSIVE SumSeq(_)
SumSeq(s) == IF s = <<>> THEN 0 ELSE Head(s) + SumSeq(Tail(s))

\* All sequences over S of length 0..n.
SeqsUpTo(S, n) == UNION {[1..k -> S] : k \in 0..n}

-----------------------------------------------------------------------------
(* FileInfo and the ordering of prioritize_files *)

\* A FileInfo record (walker.rs): the fields the prioritizer reads.
FileInfo(path, rel, priority, imports) ==
    [path |-> path, relative_path |-> rel, priority |-> priority,
     imports |-> imports]

\* A mis-ordered comparator: priority ascending.
CompareAscending(a, b) ==
    IF a.priority < b.priority THEN -1
    ELSE IF a.priority > b.priority THEN 1
    ELSE IF a.relative_path < b.relative_path THEN -1
    ELSE IF a.relative_path > b.relative_path THEN 1
    ELSE 0

\* The closure given to sort_by: b.priority.partial_cmp(&a.priority), then
\* a.relative_path.cmp(&b.relative_path).  -1 is Less, 0 Equal, 1 Greater.
ComparePriority(a, b) ==
    IF b.priority < a.priority THEN -1
    ELSE IF b.priority > a.priority THEN 1
    ELSE IF a.relative_path < b.relative_path THEN -1
    ELSE IF a.relative_path > b.relative_path THEN 1
    ELSE 0

\* Insert x behind every element that does not sort after it.
RECURSIVE InsertSorted(_, _)
InsertSorted(s, x) ==
    IF s = <<>> THEN <<x>>
    ELSE IF ComparePriority(Head(s), x) <= 0
         THEN <<Head(s)>> \o InsertSorted(Tail(s), x)
         ELSE <<x>> \o s

\* slice::sort_by: a stable sort; equal elements keep their order.
RECURSIVE SortByPriority(_)
SortByPriority(s) ==
    IF s = <<>> THEN <<>>
    ELSE InsertSorted(SortByPriority(SubSeq(s, 1, Len(s) - 1)), s[Len(s)])

-----------------------------------------------------------------------------
(* Phase A: adjust_priorities_for_dependencies *)

\* "Boost is 20% of the importer's priority" (importer_priority * 0.2).
BoostPercent == 20

\* "Cap maximum priority": priority.min(5.0), in hundredths.
PriorityCap == 500

\* path_to_index.get(p): the index of the file with path p (HashMap::insert
\* keeps the last one), 0 for None.
PathToIndex(fs, p) ==
    LET hits == {i \in 1..Len(fs) : fs[i].path = p}
    IN IF hits = {} THEN 0 ELSE CHOOSE i \in hits : \A j \in hits : j <= i

\* importer_priority * 0.2
ImportBoost(importer_priority) == (importer_priority * BoostPercent) \div 100

\* What one importer adds to priority_boosts[idx]: one boost for every entry
\* of its imports list that resolves to idx.
BoostFrom(fs, f, idx) ==
    LET hits == {k \in 1..Len(f.imports) : PathToIndex(fs, f.imports[k]) = idx}
    IN Cardinality(hits) * ImportBoost(f.priority)

\* priority_boosts[idx] after the loop over all files.
RECURSIVE BoostUpTo(_, _, _)
BoostUpTo(fs, n, idx) ==
    IF n = 0 THEN 0 ELSE BoostUpTo(fs, n - 1, idx) + BoostFrom(fs, fs[n], idx)

PriorityBoost(fs, idx) == BoostUpTo(fs, Len(fs), idx)

\* A boost applied without the cap.
ApplyBoostUncapped(priority, boost) ==
    IF boost > 0 THEN priority + boost ELSE priority

\* A boost applied with the cap taken whether or not there is a boost.
ApplyBoostAlwaysCapped(priority, boost) ==
    IF boost > 0 THEN Min(priority + boost, PriorityCap)
    ELSE Min(priority, PriorityCap)

\* "Apply the priority boosts": only a boost > 0.0 is applied, and only then
\* is the priority capped.
ApplyBoost(priority, boost) ==
    IF boost > 0 THEN Min(priority + boost, PriorityCap) ELSE priority

\* adjust_priorities_for_dependencies(&mut files): the slice after the call.
AdjustPriorities(fs) ==
    [i \in 1..Len(fs) |->
        [fs[i] EXCEPT !.priority = ApplyBoost(fs[i].priority, PriorityBoost(fs, i))]]

-----------------------------------------------------------------------------
(* Token counting (core::token, outside src/) and the structure overhead *)

\* A stand-in for usize::MAX: far above every token total the model reaches,
\* as usize::MAX is above every token total of files held in memory.
UsizeMax == 1000000

\* TokenCounter::count_tokens on the fixed fragments of the document
\* structure: a deterministic count for each text.
CountTokens(text) ==
    CASE text = "stats_estimate" -> 24
      [] text = "tree_open"      -> 8
      [] text = "tree_close"     -> 3
      [] text = "toc_header"     -> 6
      [] text = "toc_line"       -> 10
      [] text = "newline"        -> 1
      [] OTHER                   -> 0

\* usize::saturating_add
SaturatingAdd(a, b) == IF a + b > UsizeMax THEN UsizeMax ELSE a + b

\* would_exceed_limit(current, additional, max): current + additional > max
\* under saturating addition.
WouldExceedLimit(current, additional, max) ==
    SaturatingAdd(current, additional) > max

\* "Buffer for file type list"
StatsBuffer == 200

\* "~20 tokens per file in tree"
TreeTokensPerFile == 20

\* calculate_structure_overhead(options, files)
CalculateStructureOverhead(opts, fs) ==
    (IF opts.doc_header_empty THEN 0 ELSE opts.doc_header_tokens)
  + (IF opts.include_stats
        THEN CountTokens("stats_estimate") + StatsBuffer ELSE 0)
  + (IF opts.include_tree
        THEN CountTokens("tree_open") + Len(fs) * TreeTokensPerFile
             + CountTokens("tree_close")
        ELSE 0)
  + (IF opts.include_toc
        THEN CountTokens("toc_header") + Len(fs) * CountTokens("toc_line")
             + CountTokens("newline")
        ELSE 0)

-----------------------------------------------------------------------------
(* prioritize_files: the inputs *)

\* What cache.get_or_load and count_file_tokens yield for a file: a token
\* count, or an error of the read (FileProcessingError) or of the count
\* (TokenCountingError).
Counted(n) == [ok |-> TRUE, tokens |-> n, err |-> "none"]
ReadFails == [ok |-> FALSE, tokens |-> 0, err |-> "FileProcessingError"]
CountFails == [ok |-> FALSE, tokens |-> 0, err |-> "TokenCountingError"]

DiskOutcomes == {Counted(300), Counted(500), ReadFails}

\* (priority, relative path) of a generated file: equal priorities with
\* different and with equal relative paths, and different priorities.
FileKeys == {<<200, 1>>, <<100, 1>>, <<100, 2>>}

\* The imports lists of a generated input: none, or the first file imports
\* the path of the second.
ImportShapes == {0, 1}
ShapeImports(shape, i) == IF shape = 1 /\ i = 1 THEN <<2>> ELSE <<>>

\* ContextOptions: the fields prioritize_files reads.  max_tokens is read
\* only when has_limit (Some(limit)).
ContextOptions(has_limit, max_tokens, header_tokens, stats, tree, toc) ==
    [has_limit |-> has_limit, max_tokens |-> max_tokens,
     doc_header_empty |-> (header_tokens = 0),
     doc_header_tokens |-> header_tokens,
     include_stats |-> stats, include_tree |-> tree, include_toc |-> toc]

OptionSet ==
    { ContextOptions(FALSE, 0, 0, FALSE, FALSE, FALSE),
      ContextOptions(TRUE, 1000, 200, FALSE, FALSE, FALSE),
      ContextOptions(TRUE, 1000, 0, TRUE, TRUE, TRUE),
      ContextOptions(TRUE, 100, 0, TRUE, FALSE, FALSE) }

\* Scenario S4 of the specification: four candidates in priority order that
\* cost 300, 400, 500 and 100 tokens, overhead 200, budget 1000.
ScenarioS4Files ==
    << FileInfo(1, 1, 200, <<>>), FileInfo(2, 2, 150, <<>>),
       FileInfo(3, 3, 100, <<>>), FileInfo(4, 4, 50, <<>>) >>
ScenarioS4Disk == << Counted(300), Counted(400), Counted(500), Counted(100) >>
ScenarioS4Options == ContextOptions(TRUE, 1000, 200, FALSE, FALSE, FALSE)

Pending == [state |-> "pending", file_index |-> 0, token_count |-> 0]

PrioritizerIdle ==
    /\ files = <<>>
    /\ structure_overhead = 0
    /\ results = <<>>
    /\ files_with_tokens = <<>>
    /\ cursor = 0
    /\ selected_files = <<>>
    /\ total_tokens = 0
    /\ workers = {}
    /\ reordered = FALSE
    /\ loads = {}

-----------------------------------------------------------------------------
(* prioritize_files: the steps *)

\* The item of the parallel map for files[i]: read through the cache, count,
\* and wrap the count with the file.
CountItem(i) ==
    IF disk[files[i].path].ok
    THEN [state |-> "ok", file_index |-> i,
          token_count |-> disk[files[i].path].tokens]
    ELSE [state |-> "err", file_index |-> i, token_count |-> 0]

\* A collection that keeps the items in the order they finish.
StoreOnArrival(res, i, item) ==
    LET free == {k \in 1..Len(res) : res[k].state = "pending"}
        k == CHOOSE m \in free : \A j \in free : m <= j
    IN [res EXCEPT ![k] = item]

\* collect() of an indexed parallel iterator: item i lands in slot i
\* whatever the order in which the items finish.
StoreResult(res, i, item) == [res EXCEPT ![i] = item]

\* A partition that keeps the failed items as candidates of no tokens.
KeepFailures(res) ==
    [k \in 1..Len(res) |-> [file |-> files[res[k].file_index],
                            token_count |-> res[k].token_count]]

\* partition_result: the Ok items, in the order of the collected Vec.
RECURSIVE Successes(_)
Successes(res) ==
    IF res = <<>> THEN <<>>
    ELSE IF Head(res).state = "ok"
         THEN <<[file |-> files[Head(res).file_index],
                 token_count |-> Head(res).token_count]>> \o Successes(Tail(res))
         ELSE Successes(Tail(res))

RECURSIVE InsertCandidate(_, _)
InsertCandidate(s, x) ==
    IF s = <<>> THEN <<x>>
    ELSE IF ComparePriority(Head(s).file, x.file) <= 0
         THEN <<Head(s)>> \o InsertCandidate(Tail(s), x)
         ELSE <<x>> \o s

\* files_with_tokens.sort_by(..): the same stable sort, on the wrapped files.
RECURSIVE SortCandidates(_)
SortCandidates(s) ==
    IF s = <<>> THEN <<>>
    ELSE InsertCandidate(SortCandidates(SubSeq(s, 1, Len(s) - 1)), s[Len(s)])

\* A running total that forgets the admitted file.
StaleTotal(total, token_count) == total

\* total_tokens += file_with_tokens.token_count
AddTokens(total, token_count) == total + token_count

\* A scan that stops at the first candidate that does not fit.
StopAtFirstMiss(k, n) == n + 1

\* `continue`: the scan goes on with the next candidate.
AfterSkip(k, n) == k + 1

\* options.max_tokens is None: sort all files and return them.
ReturnUnlimited ==
    /\ pc = "start"
    /\ ~options.has_limit
    /\ files' = AdjustPriorities(input)
    /\ selected_files' = SortByPriority(files')
    /\ pc' = "done"
    /\ UNCHANGED <<input, options, disk, structure_overhead, results,
                   files_with_tokens, cursor, total_tokens, workers, reordered, loads>>
    /\ UNCHANGED notp

\* options.max_tokens is Some(limit): compute the overhead and start the
\* parallel map over the files.
BeginCounting ==
    /\ pc = "start"
    /\ options.has_limit
    /\ files' = AdjustPriorities(input)
    /\ structure_overhead' = CalculateStructureOverhead(options, files')
    /\ results' = [i \in 1..Len(input) |-> Pending]
    /\ workers' = 1..Len(input)
    /\ pc' = "counting"
    /\ UNCHANGED <<input, options, disk, files_with_tokens, cursor,
                   selected_files, total_tokens, reordered,
                   loads>>
    /\ UNCHANGED notp

\* One item of the parallel map finishes; the items finish in any order.
CountFile(i) ==
    /\ pc = "counting"
    /\ i \in workers
    /\ results' = StoreResult(results, i, CountItem(i))
    /\ workers' = workers \ {i}
    /\ reordered' = (reordered \/ \E j \in workers : j < i)
    /\ loads' = loads \cup {files[i].path}
    /\ UNCHANGED <<input, options, disk, pc, files, structure_overhead,
                   files_with_tokens, cursor, selected_files, total_tokens>>
    /\ UNCHANGED notp

\* The map has completed: partition, sort, and enter the selection loop.
SortPhase ==
    /\ pc = "counting"
    /\ workers = {}
    /\ files_with_tokens' = SortCandidates(Successes(results))
    /\ total_tokens' = structure_overhead
    /\ cursor' = 1
    /\ pc' = "selecting"
    /\ UNCHANGED <<input, options, disk, files, structure_overhead, results,
                   selected_files, workers, reordered, loads>>
    /\ UNCHANGED notp

\* One iteration of the selection loop.
SelectStep ==
    /\ pc = "selecting"
    /\ cursor <= Len(files_with_tokens)
    /\ LET c == files_with_tokens[cursor]
       IN IF WouldExceedLimit(total_tokens, c.token_count, options.max_tokens)
          THEN /\ cursor' = AfterSkip(cursor, Len(files_with_tokens))
               /\ UNCHANGED <<selected_files, total_tokens>>
          ELSE /\ total_tokens' = AddTokens(total_tokens, c.token_count)
               /\ selected_files' = Append(selected_files, c.file)
               /\ cursor' = cursor + 1
    /\ UNCHANGED <<input, options, disk, pc, files, structure_overhead,
                   results, files_with_tokens, workers, reordered, loads>>
    /\ UNCHANGED notp

\* The loop is over: Ok(selected_files).
ReturnSelected ==
    /\ pc = "selecting"
    /\ cursor > Len(files_with_tokens)
    /\ pc' = "done"
    /\ UNCHANGED <<input, options, disk, files, structure_overhead, results,
                   files_with_tokens, cursor, selected_files, total_tokens,
                   workers, reordered, loads>>
    /\ UNCHANGED notp

-----------------------------------------------------------------------------
(* Phase A on its own: adjust_priorities_for_dependencies on a working set *)

\* Priorities on entry, as the Walker assigns them: base + custom weight may
\* be negative (-1.0), and may exceed the cap of Phase A (6.0).
EntryPriorities == {-100, 100, 480, 600}

\* imports lists: empty, one present path, two present paths, one path
\* twice, and a path that is not in the working set (9).
ImportLists == {<<>>, <<1>>, <<2>>, <<2, 3>>, <<2, 2>>, <<9>>}

\* Scenario S3 of the specification: main.rs (2.0) imports lib.rs (1.0) and
\* utils.rs (0.8); unused.rs (0.5).
ScenarioS3Files ==
    << FileInfo(1, 2, 200, <<2, 3>>), FileInfo(2, 1, 100, <<>>),
       FileInfo(3, 4, 80, <<>>), FileInfo(4, 3, 50, <<>>) >>

NoOptions == ContextOptions(FALSE, 0, 0, FALSE, FALSE, FALSE)

\* adjust_priorities_for_dependencies(&mut files)
Adjust ==
    /\ pc = "adjust"
    /\ files' = AdjustPriorities(input)
    /\ pc' = "adjusted"
    /\ UNCHANGED <<input, options, disk, structure_overhead, results,
                   files_with_tokens, cursor, selected_files, total_tokens,
                   workers, reordered, loads>>
    /\ UNCHANGED notp

-----------------------------------------------------------------------------
(* Patterns (walker.rs): run-length encoded strings *)

\* Longest generated pattern, in runs.
MaxRuns == 2

\* Most patterns in the include, ignore and custom-priority lists together.
MaxPatterns == 2

\* "Length limit to prevent resource exhaustion": pattern.len() > 1000
MaxPatternLen == 1000

\* Code points: NUL, TAB, space, '*', '.', '/', '\', 'a', U+0085 (a control
\* character of two bytes), e-acute (two bytes), U+2028, U+2029, U+FEFF.
Alphabet == {0, 9, 32, 42, 46, 47, 92, 97, 133, 233, 8232, 8233, 65279}
RunLengths == {1, 2, 500, 1000}

\* A run <<c, n>> stands for n times the character c.
Runs == Alphabet \X RunLengths
Patterns == SeqsUpTo(Runs, MaxRuns)

\* Bytes of a character in UTF-8.
Utf8Len(c) == IF c < 128 THEN 1 ELSE IF c < 2048 THEN 2
              ELSE IF c < 65536 THEN 3 ELSE 4

\* str::len(): the length in bytes.
RECURSIVE ByteLen(_)
ByteLen(p) ==
    IF p = <<>> THEN 0 ELSE Head(p)[2] * Utf8Len(Head(p)[1]) + ByteLen(Tail(p))

\* chars().count(): the length in characters.
RECURSIVE CharLen(_)
CharLen(p) == IF p = <<>> THEN 0 ELSE Head(p)[2] + CharLen(Tail(p))

\* char::is_control(): general category Cc.
IsControl(c) == c <= 31 \/ (c >= 127 /\ c <= 159)

\* char::is_whitespace(): the White_Space characters of the alphabet range.
IsWhitespace(c) == c \in {9, 10, 11, 12, 13, 32, 133, 160, 8232, 8233}

\* The test of walker.rs:267-273.
IsInvalidChar(c) == c = 0 \/ IsControl(c) \/ c = 8232 \/ c = 8233 \/ c = 65279

HasInvalidChar(p) == \E i \in 1..Len(p) : IsInvalidChar(p[i][1])

\* pattern.starts_with(c)
StartsWith(p, c) == p # <<>> /\ p[1][1] = c

\* pattern.contains("..")
ContainsDotDot(p) ==
    \E i \in 1..Len(p) :
        /\ p[i][1] = 46
        /\ \/ p[i][2] >= 2
           \/ i < Len(p) /\ p[i + 1][1] = 46

\* pattern.trim().is_empty()
TrimIsEmpty(p) == \A i \in 1..Len(p) : IsWhitespace(p[i][1])

\* An error message is a sequence of fragments: a literal text, or the text
\* of a pattern put into the message.
Lit(text) == [lit |-> text, pat |-> <<>>]
Quoted(p) == [lit |-> "", pat |-> p]

NoError == [kind |-> "none", message |-> <<>>]
InvalidConfiguration(message) ==
    [kind |-> "InvalidConfiguration", message |-> message]

Accept(p) == [ok |-> TRUE, value |-> p, error |-> NoError]
Reject(message) ==
    [ok |-> FALSE, value |-> <<>>, error |-> InvalidConfiguration(message)]

\* pattern.len() > 1000: bytes
TooLong(p) == ByteLen(p) > MaxPatternLen

\* sanitize_pattern(pattern)
SanitizePattern(p) ==
    IF TooLong(p)
    THEN Reject(<<Lit("Pattern too long (max 1000 characters)")>>)
    ELSE IF HasInvalidChar(p)
    THEN Reject(<<Lit("Pattern contains invalid characters (null bytes or control characters)")>>)
    ELSE IF StartsWith(p, 47) \/ StartsWith(p, 92)
    THEN Reject(<<Lit("Absolute paths not allowed in patterns")>>)
    ELSE IF ContainsDotDot(p)
    THEN Reject(<<Lit("Directory traversal ("), Quoted(<<<<46, 2>>>>),
                  Lit(") not allowed in patterns")>>)
    ELSE Accept(p)

-----------------------------------------------------------------------------
(* WalkOptions and build_walker (walker.rs) *)

\* "*.a", "../secret/*", "/a", ".." and a pattern of two spaces.
StarDotA == << <<42, 1>>, <<46, 1>>, <<97, 1>> >>
DotDotSecret ==
    << <<46, 2>>, <<47, 1>>, <<115, 1>>, <<101, 1>>, <<99, 1>>, <<114, 1>>,
       <<101, 1>>, <<116, 1>>, <<47, 1>>, <<42, 1>> >>
SlashA == << <<47, 1>>, <<97, 1>> >>
DotDot == << <<46, 2>> >>
Blank == << <<32, 2>> >>
WalkPatterns == {StarDotA, DotDotSecret, SlashA, DotDot, Blank}

\* A glob that lost its "!" prefix.
CompiledPlain(p, origin, negated) ==
    [pattern |-> p, origin |-> origin, negated |-> FALSE]

\* A glob handed to a compiler (glob::Pattern::new or OverrideBuilder::add):
\* the pattern it was made from, whose pattern it is, and whether it is
\* added as a negation ("!" prefix).
Compiled(p, origin, negated) ==
    [pattern |-> p, origin |-> origin, negated |-> negated]

\* "**/*", added when only ignore patterns are given.
IncludeAll == << <<42, 2>>, <<47, 1>>, <<42, 1>> >>

\* The state of build_walker's loops: the globs added so far and the error
\* that ended them; failed_on is the pattern the error is about.
BuildState(globs, error, culprit) ==
    [globs |-> globs, error |-> error, failed_on |-> culprit]

\* One loop of build_walker over a pattern list: blank patterns are
\* skipped, every other pattern is sanitized (`?` returns the error) and
\* only then added to the override builder.
RECURSIVE AddPatterns(_, _, _)
AddPatterns(list, origin, st) ==
    IF list = <<>> \/ st.error.kind # "none" THEN st
    ELSE LET p == Head(list)
             r == SanitizePattern(p)
         IN IF TrimIsEmpty(p) THEN AddPatterns(Tail(list), origin, st)
            ELSE IF ~r.ok THEN BuildState(st.globs, r.error, p)
            ELSE AddPatterns(Tail(list), origin,
                    BuildState(Append(st.globs,
                                      Compiled(r.value, origin, origin = "ignore")),
                               st.error, st.failed_on))

\* build_walker(root, options): the override globs, or the error.
BuildWalkerResult(opts) ==
    IF opts.include_patterns = <<>> /\ opts.ignore_patterns = <<>>
    THEN BuildState(<<>>, NoError, <<>>)
    ELSE LET start == IF opts.include_patterns = <<>>
                      THEN <<Compiled(IncludeAll, "builtin", FALSE)>>
                      ELSE <<>>
             inc == AddPatterns(opts.include_patterns, "include",
                                BuildState(start, NoError, <<>>))
         IN AddPatterns(opts.ignore_patterns, "ignore", inc)

\* CompiledPriority::new for every configured rule: Pattern::new(pattern).
CompilePriorities(list) ==
    [i \in 1..Len(list) |-> Compiled(list[i], "priority", FALSE)]

WalkerIdle ==
    /\ wpc = "idle"
    /\ pattern = <<>>
    /\ sanitized = Accept(<<>>)
    /\ walk_options = [include_patterns |-> <<>>, ignore_patterns |-> <<>>,
                       priority_patterns |-> <<>>]
    /\ compiled = <<>>
    /\ walk_error = NoError
    /\ failed_on = <<>>

\* sanitize_pattern on a pattern.
Sanitize ==
    /\ wpc = "pattern"
    /\ sanitized' = SanitizePattern(pattern)
    /\ wpc' = "sanitized"
    /\ UNCHANGED <<pattern, walk_options, compiled, walk_error, failed_on>>
    /\ UNCHANGED notw

\* WalkOptions::from_config: the custom-priority rules are compiled.
FromConfig ==
    /\ wpc = "config"
    /\ compiled' = CompilePriorities(walk_options.priority_patterns)
    /\ wpc' = "options"
    /\ UNCHANGED <<pattern, sanitized, walk_options, walk_error, failed_on>>
    /\ UNCHANGED notw

\* walk_directory on a directory: build_walker succeeds, and the walk starts
\* with the compiled overrides.
BuildWalkerOk ==
    /\ wpc = "options"
    /\ LET r == BuildWalkerResult(walk_options)
       IN /\ r.error.kind = "none"
          /\ compiled' = compiled \o r.globs
    /\ wpc' = "walking"
    /\ UNCHANGED <<pattern, sanitized, walk_options, walk_error, failed_on>>
    /\ UNCHANGED notw

\* walk_directory on a directory: build_walker fails, and `?` returns its
\* error; the overrides are dropped.
BuildWalkerErr ==
    /\ wpc = "options"
    /\ LET r == BuildWalkerResult(walk_options)
       IN /\ r.error.kind # "none"
          /\ walk_error' = r.error
          /\ failed_on' = r.failed_on
    /\ wpc' = "failed"
    /\ UNCHANGED <<pattern, sanitized, walk_options, compiled>>
    /\ UNCHANGED notw

-----------------------------------------------------------------------------
(* calculate_priority and calculate_base_priority (walker.rs)               *)
(*                                                                         *)
(* A walker priority is an integer in units of 0.00001, so that every      *)
(* product of a base score (a multiple of 0.05) with the path factors      *)
(* 1.5, 1.2, 0.8, 0.7 and 1.3 is exact: 1.0 is 100000.                      *)

\* The file types of FileType the model draws from, with their base score.
FileTypes == {"Rust", "TypeScript", "Java", "Markdown", "Json", "Text", "Other"}

\* The match of calculate_base_priority on the file type.
BaseScore(file_type) ==
    CASE file_type = "Rust" -> 100000
      [] file_type = "Python" -> 90000
      [] file_type = "JavaScript" -> 90000
      [] file_type = "TypeScript" -> 95000
      [] file_type = "Go" -> 90000
      [] file_type = "Java" -> 85000
      [] file_type = "Cpp" -> 85000
      [] file_type = "C" -> 80000
      [] file_type = "CSharp" -> 85000
      [] file_type = "Ruby" -> 80000
      [] file_type = "Php" -> 75000
      [] file_type = "Swift" -> 85000
      [] file_type = "Kotlin" -> 85000
      [] file_type = "Scala" -> 80000
      [] file_type = "Haskell" -> 75000
      [] file_type = "Dart" -> 85000
      [] file_type = "Lua" -> 70000
      [] file_type = "R" -> 75000
      [] file_type = "Julia" -> 80000
      [] file_type = "Elixir" -> 80000
      [] file_type = "Elm" -> 75000
      [] file_type = "Markdown" -> 60000
      [] file_type = "Json" -> 50000
      [] file_type = "Yaml" -> 50000
      [] file_type = "Toml" -> 50000
      [] file_type = "Xml" -> 40000
      [] file_type = "Html" -> 40000
      [] file_type = "Css" -> 40000
      [] file_type = "Text" -> 30000
      [] OTHER -> 20000

\* A relative path: its directory ("" for a file directly under the root),
\* the stem of its file name and its extension.
RelPath(dir, stem, ext) == [dir |-> dir, stem |-> stem, ext |-> ext]

\* The keywords of calculate_base_priority that occur in a path component
\* (the lowercased component contains the keyword).
KeywordsIn(component) ==
    CASE component = "src" -> {"src"}
      [] component = "tests" -> {"test"}
      [] component = "examples" -> {"example"}
      [] component = "main" -> {"main"}
      [] component = "lib" -> {"lib"}
      [] component = "foo_test" -> {"test"}
      [] component = "index" -> {"index"}
      [] OTHER -> {}

\* path_str.contains(word), on the lowercased relative path.
PathContains(rel, word) ==
    word \in (KeywordsIn(rel.dir) \cup KeywordsIn(rel.stem)
                \cup KeywordsIn(rel.ext))

\* relative_path.parent() is None or the empty path.
InRoot(rel) == rel.dir = ""

\* score *= factor, factor given in tenths.
Scale(score, tenths) == (score * tenths) \div 10

\* score.min(2.0)
ScoreCap == 200000

\* calculate_base_priority(file_type, relative_path)
CalculateBasePriority(file_type, rel) ==
    LET s0 == BaseScore(file_type)
        s1 == IF PathContains(rel, "main") \/ PathContains(rel, "index")
              THEN Scale(s0, 15) ELSE s0
        s2 == IF PathContains(rel, "lib") \/ PathContains(rel, "src")
              THEN Scale(s1, 12) ELSE s1
        s3 == IF PathContains(rel, "test") \/ PathContains(rel, "spec")
              THEN Scale(s2, 8) ELSE s2
        s4 == IF PathContains(rel, "example") \/ PathContains(rel, "sample")
              THEN Scale(s3, 7) ELSE s3
        s5 == IF InRoot(rel) /\ file_type \in {"Toml", "Yaml", "Json"}
              THEN Scale(s4, 13) ELSE s4
    IN Min(s5, ScoreCap)

\* Globs of the model, as run-length encoded strings.
StarDotRs == << <<42, 1>>, <<46, 1>>, <<114, 1>>, <<115, 1>> >>
StarDotMd == << <<42, 1>>, <<46, 1>>, <<109, 1>>, <<100, 1>> >>
TestsStarStar ==
    << <<116, 1>>, <<101, 1>>, <<115, 1>>, <<116, 1>>, <<115, 1>>,
       <<47, 1>>, <<42, 2>> >>

\* Whether a compiled glob matches a relative path (Pattern::matches_path,
\* and the globs of the override matcher): "*.rs" and "*.md" match on the
\* extension at any depth, "tests/**" everything under tests, "**/*"
\* everything.
GlobMatches(glob, rel) ==
    CASE glob = StarDotRs -> rel.ext = "rs"
      [] glob = StarDotMd -> rel.ext = "md"
      [] glob = TestsStarStar -> rel.dir = "tests"
      [] glob = IncludeAll -> TRUE
      [] OTHER -> FALSE

\* A CompiledPriority: the compiled matcher and the weight.
CompiledPriority(glob, weight) == [matcher |-> glob, weight |-> weight]

\* A mis-read rule list: the last matching rule decides.
RECURSIVE LastMatchWeight(_, _, _)
LastMatchWeight(rules, rel, found) ==
    IF rules = <<>> THEN found
    ELSE LastMatchWeight(Tail(rules), rel,
            IF GlobMatches(Head(rules).matcher, rel)
            THEN [matched |-> TRUE, weight |-> Head(rules).weight]
            ELSE found)

\* The loop of calculate_priority: the first rule whose matcher matches
\* ends it.
RECURSIVE FirstMatchWeight(_, _, _)
FirstMatchWeight(rules, rel, found) ==
    IF rules = <<>> THEN found
    ELSE IF GlobMatches(Head(rules).matcher, rel)
         THEN [matched |-> TRUE, weight |-> Head(rules).weight]
         ELSE FirstMatchWeight(Tail(rules), rel, found)

NoMatch == [matched |-> FALSE, weight |-> 0]

\* calculate_priority(file_type, relative_path, custom_priorities)
CalculatePriority(file_type, rel, custom_priorities) ==
    LET base_score == CalculateBasePriority(file_type, rel)
        m == FirstMatchWeight(custom_priorities, rel, NoMatch)
    IN IF m.matched THEN base_score + m.weight ELSE base_score

\* The inputs of calculate_priority the model draws from.
RelPaths ==
    { RelPath("src", "main", "rs"), RelPath("tests", "foo_test", "rs"),
      RelPath("", "README", "md"), RelPath("", "config", "json"),
      RelPath("examples", "lib", "xyz") }
Weights == {-50000, 0, 30000, 500000}
PriorityRules ==
    { CompiledPriority(g, w) : g \in {StarDotRs, StarDotMd, TestsStarStar},
                               w \in Weights }

NotCalculated == [done |-> FALSE, priority |-> 0]

PriorityIdle ==
    /\ cp_args = [file_type |-> "Other", relative_path |-> RelPath("", "", ""),
                  custom_priorities |-> <<>>]
    /\ cp_result = NotCalculated

\* One call of calculate_priority.
CalculatePriorityCall ==
    /\ ~cp_result.done
    /\ cp_result' =
          [done |-> TRUE,
           priority |-> CalculatePriority(cp_args.file_type,
                                          cp_args.relative_path,
                                          cp_args.custom_priorities)]
    /\ UNCHANGED cp_args
    /\ UNCHANGED notc

-----------------------------------------------------------------------------
(* walk_directory, the walkers and process_file (walker.rs)                 *)

\* FileType::from_path: the type of a path, by its extension.
FileTypeOf(rel) ==
    CASE rel.ext = "rs" -> "Rust"
      [] rel.ext = "md" -> "Markdown"
      [] rel.ext = "json" -> "Json"
      [] OTHER -> "Other"

\* is_binary_extension(path)
IsBinaryExtension(rel) == rel.ext \in {"png", "exe", "zip"}

\* The text of an error, as the fragments it is made of.
Contains(text, fragment) == \E i \in 1..Len(text) : text[i] = fragment
NoText == <<>>
PermissionDenied == <<"Permission denied", " (os error 13)">>
InvalidArgument == <<"Invalid", " argument (os error 22)">>
NotFound == <<"No such file or directory", " (os error 2)">>

\* An item of the walker that is Ok(entry): the entry's relative path, its
\* size in bytes, whether it is a directory, and whether std::fs::metadata
\* succeeds on it.
Entry(rel, size, is_dir, meta_ok) ==
    [rel |-> rel, size |-> size, is_dir |-> is_dir, meta_ok |-> meta_ok,
     error |-> NoText]

\* An item of the walker that is Err(e): the traversal could not read what
\* is at rel.
ErrorEntry(rel, text) ==
    [rel |-> rel, size |-> 0, is_dir |-> FALSE, meta_ok |-> FALSE,
     error |-> text]

\* The entries a tree of the model is made of, in walk order.
TreeCatalog ==
    << Entry(RelPath("", "tests", ""), 0, TRUE, TRUE),
       Entry(RelPath("tests", "foo_test", "rs"), 10, FALSE, TRUE),
       Entry(RelPath("tests", "logo", "png"), 10, FALSE, TRUE),
       Entry(RelPath("src", "main", "rs"), 2000, FALSE, TRUE),
       Entry(RelPath("", "notes", "xyz"), 10, FALSE, TRUE),
       Entry(RelPath("", "gone", "rs"), 10, FALSE, FALSE) >>

\* The items of a tree with directories and files the traversal cannot
\* read, in walk order.
FaultyCatalog ==
    << Entry(RelPath("", "tests", ""), 0, TRUE, TRUE),
       Entry(RelPath("tests", "foo_test", "rs"), 10, FALSE, TRUE),
       ErrorEntry(RelPath("", "secret", ""), PermissionDenied),
       Entry(RelPath("src", "main", "rs"), 2000, FALSE, TRUE),
       ErrorEntry(RelPath("", "dangling", "rs"), NotFound),
       ErrorEntry(RelPath("", "odd", "rs"), InvalidArgument) >>

\* The entries of a catalog picked by a set of positions, in order.
RECURSIVE PickEntries(_, _, _)
PickEntries(catalog, picked, i) ==
    IF i > Len(catalog) THEN <<>>
    ELSE (IF i \in picked THEN <<catalog[i]>> ELSE <<>>)
            \o PickEntries(catalog, picked, i + 1)

\* The FileInfo process_file and walk_directory build.
WalkedFile(rel, size, file_type, priority) ==
    [relative_path |-> rel, size |-> size, file_type |-> file_type,
     priority |-> priority]

\* The max_file_size of the walks of the model, in bytes.
SizeLimit == 1000

NoLimit == [set |-> FALSE, bytes |-> 0]
MaxSize(bytes) == [set |-> TRUE, bytes |-> bytes]
\* The fields of WalkOptions walk_directory and process_file read.
WalkLimits(max_file_size, filter_binary_files, custom_priorities, parallel) ==
    [max_file_size |-> max_file_size,
     filter_binary_files |-> filter_binary_files,
     custom_priorities |-> custom_priorities, parallel |-> parallel]

\* Result<Option<FileInfo>>: Ok(None) and Ok(Some(file_info)).  process_file
\* has no path that returns Err.
SkipFile ==
    [ok |-> TRUE, some |-> FALSE,
     file |-> WalkedFile(RelPath("", "", ""), 0, "Other", 0), error |-> NoText]
KeepFile(f) == [ok |-> TRUE, some |-> TRUE, file |-> f, error |-> NoText]

\* process_file(path, root, options)
ProcessFile(e, limits) ==
    IF ~e.meta_ok THEN SkipFile
    ELSE IF limits.max_file_size.set /\ e.size > limits.max_file_size.bytes
    THEN SkipFile
    ELSE IF limits.filter_binary_files /\ IsBinaryExtension(e.rel)
    THEN SkipFile
    ELSE IF limits.filter_binary_files /\ FileTypeOf(e.rel) = "Other"
    THEN SkipFile
    ELSE KeepFile(WalkedFile(e.rel, e.size, FileTypeOf(e.rel),
                     CalculatePriority(FileTypeOf(e.rel), e.rel,
                                       limits.custom_priorities)))

\* The override globs build_walker handed to the walker.
OverrideGlobs == SelectSeq(compiled, LAMBDA g : g.origin # "priority")

\* The match of the override globs on a path: the last glob that matches
\* decides; a file that matches none is ignored when there is an include
\* glob, a directory is not.
RECURSIVE LastGlob(_, _)
LastGlob(globs, rel) ==
    IF globs = <<>> THEN 0
    ELSE IF GlobMatches(globs[Len(globs)].pattern, rel) THEN Len(globs)
    ELSE LastGlob(SubSeq(globs, 1, Len(globs) - 1), rel)

OverrideMatch(globs, rel, is_dir) ==
    LET k == LastGlob(globs, rel)
    IN IF k > 0 THEN (IF globs[k].negated THEN "ignore" ELSE "whitelist")
       ELSE IF (\E i \in 1..Len(globs) : ~globs[i].negated) /\ ~is_dir
            THEN "ignore"
            ELSE "none"

\* The outcome of a walk: Err(..), or Ok(files) with the set of its files.
Failed(parallel) == [done |-> TRUE, ok |-> FALSE, files |-> {}, parallel |-> parallel]
Walked(fs, parallel) ==
    [done |-> TRUE, ok |-> TRUE, files |-> Range(fs), parallel |-> parallel]
NotWalked == [done |-> FALSE, ok |-> FALSE, files |-> {}, parallel |-> FALSE]

RootDir == [kind |-> "dir", entry |-> TreeCatalog[1]]
RootFile(e) == [kind |-> "file", entry |-> e]
RootMissing == [kind |-> "missing", entry |-> TreeCatalog[1]]

DirWalkIdle ==
    /\ root = RootDir
    /\ entries = <<>>
    /\ walk_limits = WalkLimits(NoLimit, FALSE, <<>>, FALSE)
    /\ walk_pos = 0
    /\ walk_files = <<>>
    /\ first_walk = NotWalked

\* walk_directory on a path that does not exist.
WalkMissingRoot ==
    /\ wpc = "options"
    /\ root.kind = "missing"
    /\ walk_error' = [kind |-> "InvalidPath",
                      message |-> <<Lit("Path does not exist: ")>>]
    /\ wpc' = "failed"
    /\ UNCHANGED <<pattern, sanitized, walk_options, compiled, failed_on>>
    /\ UNCHANGED notw

\* walk_directory on a single regular file: the file is returned as it is.
WalkSingleFile ==
    /\ wpc = "options"
    /\ root.kind = "file"
    /\ LET e == root.entry
           name == RelPath("", e.rel.stem, e.rel.ext)
       IN walk_files' =
             << WalkedFile(name, e.size, FileTypeOf(e.rel),
                    CalculatePriority(FileTypeOf(e.rel), name,
                                      walk_limits.custom_priorities)) >>
    /\ wpc' = "returned"
    /\ UNCHANGED <<root, entries, walk_limits, walk_pos, first_walk>>
    /\ UNCHANGED <<pattern, sanitized, walk_options, compiled, walk_error,
                   failed_on>>
    /\ UNCHANGED notwd

\* walk_directory on a directory: build_walker, then the walk.
StartWalk ==
    /\ root.kind = "dir"
    /\ BuildWalkerOk

\* The items of the walk the parallel map runs process_file on: the Ok
\* items that are not ignored and are not directories.
Processed(es, globs) ==
    SelectSeq(es, LAMBDA e : /\ e.error = NoText
                             /\ OverrideMatch(globs, e.rel, e.is_dir) # "ignore"
                             /\ ~e.is_dir)

\* The errors of the parallel map, each wrapped as FileProcessingError.
ProcessingErrors(es, globs, limits) ==
    LET failed == SelectSeq(Processed(es, globs),
                            LAMBDA e : ~ProcessFile(e, limits).ok)
    IN [i \in 1..Len(failed) |-> ProcessFile(failed[i], limits).error]

\* The errors that are classified critical.
CriticalErrors(errors) ==
    SelectSeq(errors, LAMBDA t : \/ Contains(t, "Permission denied")
                                 \/ Contains(t, "Invalid"))

\* One item of the walk.  The walker drops what the overrides ignore,
\* directories are skipped, and process_file decides on the rest.  An Err
\* item reaches this step only in walk_parallel, where filter_map(|e| e.ok())
\* drops it.
VisitEntry ==
    /\ wpc = "walking"
    /\ walk_pos < Len(entries)
    /\ LET e == entries[walk_pos + 1]
           r == ProcessFile(e, walk_limits)
       IN /\ e.error # NoText => walk_limits.parallel
          /\ walk_files' =
                IF e.error # NoText THEN walk_files
                ELSE IF OverrideMatch(OverrideGlobs, e.rel, e.is_dir) = "ignore"
                THEN walk_files
                ELSE IF e.is_dir THEN walk_files
                ELSE IF r.ok /\ r.some THEN Append(walk_files, r.file)
                ELSE walk_files
    /\ walk_pos' = walk_pos + 1
    /\ UNCHANGED <<root, entries, walk_limits, first_walk>>
    /\ UNCHANGED <<wvars, notwd>>

\* walk_sequential on an Err item: `let entry = entry?;` returns the error
\* of the traversal, and the files collected so far are dropped.
WalkEntryFails ==
    /\ wpc = "walking"
    /\ walk_pos < Len(entries)
    /\ ~walk_limits.parallel
    /\ entries[walk_pos + 1].error # NoText
    /\ walk_error' = [kind |-> "Traversal",
                      message |-> entries[walk_pos + 1].error]
    /\ wpc' = "failed"
    /\ UNCHANGED <<pattern, sanitized, walk_options, compiled, failed_on>>
    /\ UNCHANGED notw

\* The walk is over.  walk_sequential returns Ok(files); walk_parallel
\* fails when an error of process_file is critical and otherwise returns
\* Ok(files).
WalkReturn ==
    /\ wpc = "walking"
    /\ walk_pos = Len(entries)
    /\ LET critical ==
              IF walk_limits.parallel
              THEN CriticalErrors(ProcessingErrors(entries, OverrideGlobs,
                                                   walk_limits))
              ELSE <<>>
       IN IF critical # <<>>
          THEN /\ walk_error' = [kind |-> "Critical", message |-> critical]
               /\ wpc' = "failed"
          ELSE /\ wpc' = "returned"
               /\ UNCHANGED walk_error
    /\ UNCHANGED <<pattern, sanitized, walk_options, compiled, failed_on>>
    /\ UNCHANGED notw

\* walk_directory is called again on the same tree with the same options
\* but the other value of options.parallel.
WalkAgain ==
    /\ wpc \in {"returned", "failed"}
    /\ root.kind = "dir"
    /\ ~first_walk.done
    /\ first_walk' = IF wpc = "failed" THEN Failed(walk_limits.parallel)
                     ELSE Walked(walk_files, walk_limits.parallel)
    /\ walk_limits' = [walk_limits EXCEPT !.parallel = ~@]
    /\ walk_pos' = 0
    /\ walk_files' = <<>>
    /\ wpc' = "options"
    /\ compiled' = <<>>
    /\ walk_error' = NoError
    /\ UNCHANGED <<root, entries>>
    /\ UNCHANGED <<pattern, sanitized, walk_options, failed_on>>
    /\ UNCHANGED notwd

-----------------------------------------------------------------------------
(* SemanticContext (semantic/analyzer.rs)                                   *)

\* Number of source files of the import graph (files are 1..MaxSources).
MaxSources == 3

\* Largest max_depth a traversal is started with.
MaxDepth == 3

SourceFiles == 1..MaxSources

\* The project root handed to SemanticContext::new.
BaseDir == 0

\* SemanticContext::new(current_file, base_dir, max_depth)
NewContext(current_file, base_dir, max_depth) ==
    [current_file |-> current_file, base_dir |-> base_dir,
     current_depth |-> 0, max_depth |-> max_depth, visited_files |-> {}]

\* A depth test that lets one more level through.
AtMaxDepthLate(ctx) == ctx.current_depth > ctx.max_depth

\* SemanticContext::at_max_depth
AtMaxDepth(ctx) == ctx.current_depth >= ctx.max_depth

NoContext == [some |-> FALSE, ctx |-> NewContext(0, BaseDir, 0)]
SomeContext(ctx) == [some |-> TRUE, ctx |-> ctx]

\* A child that keeps the depth of its parent.
ChildContextSameDepth(ctx, file) ==
    IF AtMaxDepth(ctx) \/ file \in ctx.visited_files THEN NoContext
    ELSE SomeContext([ctx EXCEPT !.current_file = file,
                                 !.visited_files = @ \cup {file}])

\* SemanticContext::child_context(&self, file)
ChildContext(ctx, file) ==
    IF AtMaxDepth(ctx) \/ file \in ctx.visited_files THEN NoContext
    ELSE SomeContext([ctx EXCEPT !.current_file = file,
                                 !.current_depth = @ + 1,
                                 !.visited_files = @ \cup {file}])

\* No call of child_context was made on the current context yet.
NoCall == [made |-> FALSE, parent |-> NewContext(0, BaseDir, 0), file |-> 0,
           result |-> NoContext]

ContextIdle ==
    /\ chain = <<>>
    /\ last_call = NoCall

\* The traversal calls child_context on the context it is at, for a file
\* the current file imports (any file: the import graph is arbitrary), and
\* descends into the child when there is one.
ChildContextCall(file) ==
    /\ chain # <<>>
    /\ LET parent == chain[Len(chain)]
           r == ChildContext(parent, file)
       IN /\ last_call' = [made |-> TRUE, parent |-> parent, file |-> file,
                           result |-> r]
          /\ chain' = IF r.some THEN Append(chain, r.ctx) ELSE chain
    /\ UNCHANGED nots

\* The traversal is done with the current file and returns to the context
\* it came from.
ReturnToParent ==
    /\ Len(chain) > 1
    /\ chain' = SubSeq(chain, 1, Len(chain) - 1)
    /\ last_call' = NoCall
    /\ UNCHANGED nots

-----------------------------------------------------------------------------
(* ParallelAnalyzer (semantic/parallel_analyzer.rs)                         *)

\* The paths the analysed lists are made of.
AnalyzedPaths == {1, 2}

\* AnalysisResult (analyzer.rs): imports are module names, a module that is
\* a path of AnalyzedPaths resolves to that file, any other is external.
AnalysisResult(imports, function_calls, type_references, exported_functions) ==
    [imports |-> imports, function_calls |-> function_calls,
     type_references |-> type_references,
     exported_functions |-> exported_functions, errors |-> <<>>]

\* AnalysisResult::default()
EmptyAnalysis == AnalysisResult(<<>>, <<>>, <<>>, <<>>)

\* The content of a file, and the DefaultHasher hash of a content.
ContentAt(path) == 10 + path
ContentHash(content) == (content * 40503) % 65536

\* analyzer.analyze_file(path, content, context): what the language
\* analyzer finds is a function of the path and the content.
Analyze(path, content) ==
    AnalysisResult(<<3 - path, 9>>, <<"call", path>>, <<"type", content>>,
                   <<"fn", path>>)

\* What the file system and the language registry hold for a path: whether
\* there is an analyzer and a resolver for the file type, whether the file
\* can be read and whether its analysis succeeds.
DiskEntry(analyzer, readable, parses, resolver_ok) ==
    [analyzer |-> analyzer, readable |-> readable, parses |-> parses,
     resolver_ok |-> resolver_ok]
SourceOk == DiskEntry(TRUE, TRUE, TRUE, TRUE)
ParseFails == DiskEntry(TRUE, TRUE, FALSE, TRUE)
Unreadable == DiskEntry(TRUE, FALSE, TRUE, TRUE)
NoAnalyzer == DiskEntry(FALSE, TRUE, TRUE, TRUE)
NoAnalyzerUnreadable == DiskEntry(FALSE, FALSE, TRUE, TRUE)
ResolverFails == DiskEntry(TRUE, TRUE, TRUE, FALSE)
DiskEntries == {SourceOk, ParseFails, Unreadable, NoAnalyzer,
                NoAnalyzerUnreadable, ResolverFails}

\* AnalysisOptions of the call, and include_functions of self.options.
AnalysisOptions(trace_imports, include_types, include_functions, own_functions) ==
    [trace_imports |-> trace_imports, include_types |-> include_types,
     include_functions |-> include_functions,
     own_include_functions |-> own_functions]
AnalysisOptionSet ==
    { AnalysisOptions(TRUE, TRUE, TRUE, TRUE),
      AnalysisOptions(FALSE, TRUE, FALSE, TRUE),
      AnalysisOptions(TRUE, FALSE, TRUE, FALSE) }

NoHash == [some |-> FALSE, hash |-> 0]
SomeHash(h) == [some |-> TRUE, hash |-> h]
NoMessage == [some |-> FALSE, path |-> 0, cause |-> ""]
FailedToAnalyze(path, cause) == [some |-> TRUE, path |-> path, cause |-> cause]

\* FileAnalysisResult (dependency_types)
FileAnalysisResult(file_index, imports, calls, types, exported, hash, error) ==
    [file_index |-> file_index, imports |-> imports,
     function_calls |-> calls, type_references |-> types,
     exported_functions |-> exported,
     content_hash |-> hash, error |-> error]

\* A minimal result that lost its index.
FailedResultFirst(file_index, message) ==
    FileAnalysisResult(0, <<>>, <<>>, <<>>, <<>>, NoHash, message)

\* The minimal result of the Err arm of analyze_files.
FailedResult(file_index, message) ==
    FileAnalysisResult(file_index, <<>>, <<>>, <<>>, <<>>, NoHash, message)

\* The result for a file type without analyzer.
UnanalyzedResult(file_index, hash) ==
    FileAnalysisResult(file_index, <<>>, <<>>, <<>>, <<>>, SomeHash(hash),
                       NoMessage)

\* Result<FileAnalysisResult>
OkResult(r) == [ok |-> TRUE, result |-> r, cause |-> ""]
ErrResult(cause) ==
    [ok |-> FALSE, result |-> FailedResult(0, NoMessage), cause |-> cause]

\* The key of the semantic cache, its lookup and its insertion.
CacheKey(path, hash) == <<path, hash>>
CacheHas(cache, key) == key \in DOMAIN cache
CacheInsert(cache, key, value) ==
    [k \in DOMAIN cache \cup {key} |-> IF k = key THEN value ELSE cache[k]]

\* A cache that also stores a failed analysis, as an empty result.
CacheAlsoFailures(cache, key, parses, analysis) ==
    CacheInsert(cache, key, IF parses THEN analysis ELSE EmptyAnalysis)

\* The cache after analyzer.analyze_file(..)? on a miss: the insert is
\* reached only when the analysis succeeded.
CacheAfterAnalysis(cache, key, parses, analysis) ==
    IF parses THEN CacheInsert(cache, key, analysis) ELSE cache

\* A hit that forgets what was cached.
CachedDefault(cached) == EmptyAnalysis

\* Cache hit: (*cached_result).clone()
CachedResult(cached) == cached

\* process_imports: the typed edges of the imports that resolve to an
\* internal file.
ProcessImports(imports) ==
    LET internal == SelectSeq(imports, LAMBDA m : m \in AnalyzedPaths)
    IN [i \in 1..Len(internal) |-> <<internal[i], "Import">>]

\* analyze_single_file from the analysis result on: the imports are
\* resolved and the fields are filtered by the options.
FinishSingleFile(file_index, entry, hash, analysis, opts) ==
    IF opts.trace_imports /\ ~entry.resolver_ok THEN ErrResult("resolver")
    ELSE OkResult(FileAnalysisResult(
            file_index,
            IF opts.trace_imports THEN ProcessImports(analysis.imports)
                                  ELSE <<>>,
            IF opts.include_functions THEN analysis.function_calls ELSE <<>>,
            IF opts.include_types THEN analysis.type_references ELSE <<>>,
            IF opts.own_include_functions THEN analysis.exported_functions
                                          ELSE <<>>,
            SomeHash(hash), NoMessage))

\* The closure of analyze_files on the outcome of analyze_single_file.
CloseItem(file_index, path, outcome) ==
    IF outcome.ok THEN outcome.result
    ELSE FailedResult(file_index, FailedToAnalyze(path, outcome.cause))

\* A slot of the collected Vec that is not filled yet.
PendingAnalysis == [file_index |-> -1]

\* A worker of the parallel map: where it is in analyze_single_file, how it
\* got its analysis and whether it ran the analyzer.
Worker(pos, via, ran, analysis) ==
    [pos |-> pos, via |-> via, ran |-> ran, analysis |-> analysis]

AnalyzerIdle ==
    /\ apc = "idle"
    /\ an_files = <<>>
    /\ an_disk = <<>>
    /\ an_options = AnalysisOptions(TRUE, TRUE, TRUE, TRUE)
    /\ semantic_cache = <<>>
    /\ an_workers = <<>>
    /\ an_results = <<>>
    /\ an_errors = <<>>

\* The errors pushed so far, with the one of this item if it failed.
PushError(errors, path, outcome) ==
    IF outcome.ok THEN errors
    ELSE Append(errors, FailedToAnalyze(path, outcome.cause))

\* Item i up to the cache lookup: the analyzer for the file type, the
\* content, its hash and semantic_cache.get.  Without analyzer, on a read
\* failure and on a hit the item completes here.
LookupStep(i) ==
    /\ apc = "running"
    /\ an_workers[i].pos = "start"
    /\ LET path == an_files[i]
           entry == an_disk[path]
           hash == ContentHash(ContentAt(path))
           key == CacheKey(path, hash)
           hit == entry.analyzer /\ entry.readable
                    /\ CacheHas(semantic_cache, key)
           miss == entry.analyzer /\ entry.readable
                    /\ ~CacheHas(semantic_cache, key)
           outcome ==
              IF ~entry.readable THEN ErrResult("read")
              ELSE IF ~entry.analyzer
                   THEN OkResult(UnanalyzedResult(i - 1, hash))
                   ELSE FinishSingleFile(i - 1, entry, hash,
                                         CachedResult(semantic_cache[key]),
                                         an_options)
       IN IF miss
          THEN /\ an_workers' = [an_workers EXCEPT ![i].pos = "missed",
                                                   ![i].via = "miss"]
               /\ UNCHANGED <<an_results, an_errors>>
          ELSE /\ an_workers' =
                    [an_workers EXCEPT ![i] =
                        IF hit
                        THEN Worker("done", "hit", FALSE,
                                    CachedResult(semantic_cache[key]))
                        ELSE Worker("done", "none", FALSE, EmptyAnalysis)]
               /\ an_results' =
                    [an_results EXCEPT ![i] = CloseItem(i - 1, path, outcome)]
               /\ an_errors' = PushError(an_errors, path, outcome)
    /\ UNCHANGED <<apc, an_files, an_disk, an_options, semantic_cache>>
    /\ UNCHANGED nota

\* Item i after a miss: analyzer.analyze_file, semantic_cache.insert and
\* the rest of analyze_single_file.
AnalyzeStep(i) ==
    /\ apc = "running"
    /\ an_workers[i].pos = "missed"
    /\ LET path == an_files[i]
           entry == an_disk[path]
           hash == ContentHash(ContentAt(path))
           key == CacheKey(path, hash)
           analysis == Analyze(path, ContentAt(path))
           outcome == IF ~entry.parses THEN ErrResult("analysis")
                      ELSE FinishSingleFile(i - 1, entry, hash, analysis,
                                            an_options)
       IN /\ semantic_cache' =
                CacheAfterAnalysis(semantic_cache, key, entry.parses, analysis)
          /\ an_workers' =
                [an_workers EXCEPT ![i] =
                    Worker("done", "miss", TRUE,
                           IF entry.parses THEN analysis ELSE EmptyAnalysis)]
          /\ an_results' =
                [an_results EXCEPT ![i] = CloseItem(i - 1, path, outcome)]
          /\ an_errors' = PushError(an_errors, path, outcome)
    /\ UNCHANGED <<apc, an_files, an_disk, an_options>>
    /\ UNCHANGED nota

\* The parallel map is complete: the errors are logged and Ok(results)
\* is returned.
ReturnResults ==
    /\ apc = "running"
    /\ \A i \in 1..Len(an_files) : an_workers[i].pos = "done"
    /\ apc' = "returned"
    /\ UNCHANGED <<an_files, an_disk, an_options, semantic_cache, an_workers,
                   an_results, an_errors>>
    /\ UNCHANGED nota

-----------------------------------------------------------------------------
(* group_by_directory (prioritizer.rs)                                      *)

\* The relative paths of the grouped files, numbered in the order of
\* PathBuf::cmp: 1 "lib.rs", 2 "main.rs", 3 "src/core/mod.rs",
\* 4 "src/lib.rs", 5 "src/main.rs", 6 "tests/test.rs".
GroupedPaths == 1..6

\* relative_path.parent() as a string; the parent of a bare file name is "".
ParentDir(rel) ==
    CASE rel \in {1, 2} -> ""
      [] rel = 3 -> "src/core"
      [] rel \in {4, 5} -> "src"
      [] OTHER -> "tests"

\* The place of a directory string in the order of String::cmp.
DirRank(dir) ==
    CASE dir = "" -> 0
      [] dir = "src" -> 1
      [] dir = "src/core" -> 2
      [] OTHER -> 3

\* A mis-ordered comparison of the keys: descending.
KeyDescending(a, b) == DirRank(a) > DirRank(b)

\* a.0.cmp(&b.0) is Less
KeyLess(a, b) == DirRank(a) < DirRank(b)

\* result.sort_by(|a, b| a.0.cmp(&b.0)) on the keys of the map, which are
\* distinct.
RECURSIVE SortKeys(_)
SortKeys(keys) ==
    IF keys = {} THEN <<>>
    ELSE LET first == CHOOSE k \in keys : \A o \in keys \ {k} : KeyLess(k, o)
         IN <<first>> \o SortKeys(keys \ {first})

\* groups.entry(dir).or_default().push(file), over the files in order: the
\* files of one directory, in input order.
GroupOf(fs, dir) ==
    SelectSeq(fs, LAMBDA f : ParentDir(f.relative_path) = dir)

\* group_by_directory(files)
GroupByDirectory(fs) ==
    LET keys == SortKeys({ParentDir(fs[i].relative_path) : i \in 1..Len(fs)})
    IN [g \in 1..Len(keys) |->
          [dir |-> keys[g], files |-> SortByPriority(GroupOf(fs, keys[g]))]]

NotGrouped == [done |-> FALSE, result |-> <<>>]

GroupingIdle ==
    /\ group_files = <<>>
    /\ groups = NotGrouped

\* group_by_directory(files)
GroupByDirectoryCall ==
    /\ ~groups.done
    /\ groups' = [done |-> TRUE, result |-> GroupByDirectory(group_files)]
    /\ UNCHANGED group_files
    /\ UNCHANGED notg

-----------------------------------------------------------------------------
(* process_imports (semantic/parallel_analyzer.rs)                          *)

\* Module strings and paths are sequences of fragments: "/" separates the
\* components, "." is a dot, everything else is a piece of a name.
DotSlashX == <<".", "/", "x">>
DotSlashTwiceX == <<".", "/", ".", "/", "x">>
DotDotX == <<".", ".", "/", "x">>
BareX == <<"x">>
AbsoluteY == <<"/", "abs", "/", "y">>

\* file_path.parent() of the importing file, an absolute directory.
ImporterParent == <<"/", "p">>

\* import.module.starts_with(".")
StartsWithDot(module) == module # <<>> /\ module[1] = "."

\* Only the first "./" is removed.
TrimOnce(module) ==
    IF Len(module) >= 2 /\ module[1] = "." /\ module[2] = "/"
    THEN SubSeq(module, 3, Len(module)) ELSE module

\* import.module.trim_start_matches("./"): every leading "./" is removed.
RECURSIVE TrimStartMatches(_)
TrimStartMatches(module) ==
    IF Len(module) >= 2 /\ module[1] = "." /\ module[2] = "/"
    THEN TrimStartMatches(SubSeq(module, 3, Len(module))) ELSE module

\* Path::is_absolute and Path::join: an absolute argument replaces the base.
IsAbsolute(path) == path # <<>> /\ path[1] = "/"
Join(base, path) == IF IsAbsolute(path) THEN path ELSE base \o <<"/">> \o path

\* The components of a path; a component that is a single dot is dropped,
\* as Path::components does after the first component.
RECURSIVE Components(_)
Components(path) ==
    IF path = <<>> THEN <<>>
    ELSE IF path[1] = "/" THEN Components(Tail(path))
    ELSE LET seps == {i \in 1..Len(path) : path[i] = "/"}
             n == IF seps = {} THEN Len(path) + 1
                  ELSE CHOOSE i \in seps : \A j \in seps : i <= j
         IN <<SubSeq(path, 1, n - 1)>> \o Components(SubSeq(path, n, Len(path)))

\* The file a path names.
Normalize(path) ==
    [absolute |-> IsAbsolute(path),
     components |-> SelectSeq(Components(path), LAMBDA c : c # <<".">>)]

\* path.exists() on a disk, the set of the files that exist.
Exists(on_disk, path) == Normalize(path) \in on_disk

\* What resolver.resolve_import returned for an import.
ResolveFails == [ok |-> FALSE, path |-> <<>>, is_external |-> FALSE]
Resolved(path, is_external) ==
    [ok |-> TRUE, path |-> path, is_external |-> is_external]

\* Import (analyzer.rs), with what the resolver makes of its module.
Import(module, items, resolution) ==
    [module |-> module, items |-> items, resolution |-> resolution]

\* (PathBuf, DependencyEdgeType::Import { symbols })
ImportEdge(path, items) == [path |-> path, symbols |-> items]

\* for ext in &["js", "jsx", "ts", "tsx"]
Extensions == <<"js", "jsx", "ts", "tsx">>

\* parent.join(format!("{module_base}.{ext}")), in probing order
ManualCandidates(parent, module) ==
    [k \in 1..Len(Extensions) |->
        Join(parent, TrimStartMatches(module) \o <<".", Extensions[k]>>)]

\* A probe that goes on after a candidate exists: the last one wins.
LastExisting(candidates, on_disk) ==
    LET hits == {k \in 1..Len(candidates) : Exists(on_disk, candidates[k])}
    IN IF hits = {} THEN <<>>
       ELSE <<candidates[CHOOSE k \in hits : \A j \in hits : j <= k]>>

\* The probing loop: the first candidate that exists, then break.
FirstExisting(candidates, on_disk) ==
    LET hits == {k \in 1..Len(candidates) : Exists(on_disk, candidates[k])}
    IN IF hits = {} THEN <<>>
       ELSE <<candidates[CHOOSE k \in hits : \A j \in hits : k <= j]>>

\* An edge for every resolved import, external ones too.
ResolvedEdgeAlways(resolution, items) ==
    <<ImportEdge(resolution.path, items)>>

\* Ok(resolved): an edge unless resolved.is_external.
ResolvedEdge(resolution, items) ==
    IF ~resolution.is_external THEN <<ImportEdge(resolution.path, items)>>
    ELSE <<>>

\* The fallback: the module string as a path, if absolute and existing.
FallbackEdge(import, on_disk) ==
    IF IsAbsolute(import.module) /\ Exists(on_disk, import.module)
    THEN <<ImportEdge(import.module, import.items)>> ELSE <<>>

\* Err(e) of the resolver: manual resolution of a relative module, or the
\* fallback.
UnresolvedEdge(parent, import, on_disk) ==
    IF StartsWithDot(import.module)
    THEN LET found == FirstExisting(ManualCandidates(parent, import.module),
                                    on_disk)
         IN [k \in 1..Len(found) |-> ImportEdge(found[k], import.items)]
    ELSE FallbackEdge(import, on_disk)

\* What one import pushes to typed_imports.
EdgesOfImport(has_resolver, parent, import, on_disk) ==
    IF ~has_resolver THEN FallbackEdge(import, on_disk)
    ELSE IF import.resolution.ok
    THEN ResolvedEdge(import.resolution, import.items)
    ELSE UnresolvedEdge(parent, import, on_disk)

\* process_imports(file_path, project_root, imports, valid_files)
RECURSIVE TypedImports(_, _, _, _)
TypedImports(has_resolver, parent, imports, on_disk) ==
    IF imports = <<>> THEN <<>>
    ELSE EdgesOfImport(has_resolver, parent, Head(imports), on_disk)
            \o TypedImports(has_resolver, parent, Tail(imports), on_disk)

\* The arguments of the step and the state it reads.
ImportsCall(has_resolver, parent, imports, on_disk, trace_imports) ==
    [has_resolver |-> has_resolver, parent |-> parent, imports |-> imports,
     on_disk |-> on_disk, trace_imports |-> trace_imports]

NotTraced == [done |-> FALSE, edges |-> <<>>]

ImportsIdle ==
    /\ imp_call = ImportsCall(FALSE, <<>>, <<>>, {}, FALSE)
    /\ imp_edges = NotTraced

\* analyze_single_file, "Process imports if enabled"
TraceImports ==
    /\ ~imp_edges.done
    /\ imp_edges' =
          [done |-> TRUE,
           edges |-> IF imp_call.trace_imports
                     THEN TypedImports(imp_call.has_resolver, imp_call.parent,
                                       imp_call.imports, imp_call.on_disk)
                     ELSE <<>>]
    /\ UNCHANGED imp_call
    /\ UNCHANGED noti

-----------------------------------------------------------------------------
(* The dependency graph (core::semantic_graph, outside src/)               *)

\* The node of a path: the files of the working set are 1..n, and a path
\* that is not in the working set has no node.
NodeOf(n, path) == IF path \in 1..n THEN path ELSE 0

\* One analysed file: an edge (importer -> imported) for each of its
\* resolved internal imports whose target is a node.
AddEdges(edges, n, importer, targets) ==
    edges \cup {<<importer, NodeOf(n, targets[k])>> :
                   k \in {k \in 1..Len(targets) : NodeOf(n, targets[k]) # 0}}

\* The elements of a set of numbers, ascending.
RECURSIVE Ascending(_)
Ascending(S) ==
    IF S = {} THEN <<>>
    ELSE LET least == CHOOSE x \in S : \A y \in S : x <= y
         IN <<least>> \o Ascending(S \ {least})

\* The adjacency of a node: what it imports and what imports it.
ImportsOf(edges, f) == Ascending({e[2] : e \in {e \in edges : e[1] = f}})

\* An adjacency that leaves out the importers with a greater index.
ImportedByEarlier(edges, f) ==
    Ascending({e[1] : e \in {e \in edges : e[2] = f /\ e[1] <= f}})

ImportedByOf(edges, f) == Ascending({e[1] : e \in {e \in edges : e[2] = f}})

GraphNode(imports, imported_by) ==
    [imports |-> imports, imported_by |-> imported_by]

GraphIdle ==
    /\ dg_imports = <<>>
    /\ dg_edges = {}
    /\ dg_pos = 0
    /\ dg_nodes = <<>>

\* The next analysed file is iterated and its edges are added.
AddFileEdges ==
    /\ dg_pos < Len(dg_imports)
    /\ dg_edges' = AddEdges(dg_edges, Len(dg_imports), dg_pos + 1,
                            dg_imports[dg_pos + 1])
    /\ dg_pos' = dg_pos + 1
    /\ UNCHANGED <<dg_imports, dg_nodes>>
    /\ UNCHANGED notx

\* After construction the imports and imported_by of every node are set
\* from the adjacency of the graph.
SetAdjacency ==
    /\ dg_pos = Len(dg_imports)
    /\ dg_nodes' = [f \in 1..Len(dg_imports) |->
                       GraphNode(ImportsOf(dg_edges, f),
                                 ImportedByOf(dg_edges, f))]
    /\ dg_pos' = dg_pos + 1
    /\ UNCHANGED <<dg_imports, dg_edges>>
    /\ UNCHANGED notx

-----------------------------------------------------------------------------
(* The specifications *)

InitPrioritize ==
    /\ GroupingIdle
    /\ ImportsIdle
    /\ GraphIdle
    /\ pc = "start"
    /\ \/ \E n \in 0..MaxFiles :
            \E keys \in [1..n -> FileKeys], shape \in ImportShapes :
               /\ input = [i \in 1..n |->
                              FileInfo(i, keys[i][2], keys[i][1],
                                       ShapeImports(shape, i))]
               /\ disk \in [1..n -> DiskOutcomes]
               /\ options \in OptionSet
       \/ /\ input = ScenarioS4Files
          /\ disk = ScenarioS4Disk
          /\ options = ScenarioS4Options
    /\ PrioritizerIdle
    /\ PriorityIdle
    /\ DirWalkIdle
    /\ ContextIdle
    /\ AnalyzerIdle
    /\ WalkerIdle

NextPrioritize ==
    \/ ReturnUnlimited
    \/ BeginCounting
    \/ \E i \in 1..Len(input) : CountFile(i)
    \/ SortPhase
    \/ SelectStep
    \/ ReturnSelected

Spec == InitPrioritize /\ [][NextPrioritize]_vars

InitAdjust ==
    /\ GroupingIdle
    /\ ImportsIdle
    /\ GraphIdle
    /\ pc = "adjust"
    /\ \/ \E n \in 0..MaxFiles :
            \E prio \in [1..n -> EntryPriorities], imps \in [1..n -> ImportLists] :
               input = [i \in 1..n |-> FileInfo(i, i, prio[i], imps[i])]
       \/ input = ScenarioS3Files
    /\ options = NoOptions
    /\ disk = <<>>
    /\ PrioritizerIdle
    /\ PriorityIdle
    /\ DirWalkIdle
    /\ ContextIdle
    /\ AnalyzerIdle
    /\ WalkerIdle

NextAdjust == Adjust

SpecAdjust == InitAdjust /\ [][NextAdjust]_vars

InitSanitize ==
    /\ GroupingIdle
    /\ ImportsIdle
    /\ GraphIdle
    /\ wpc = "pattern"
    /\ pattern \in Patterns
    /\ sanitized = Accept(<<>>)
    /\ walk_options = [include_patterns |-> <<>>, ignore_patterns |-> <<>>,
                       priority_patterns |-> <<>>]
    /\ compiled = <<>>
    /\ walk_error = NoError
    /\ failed_on = <<>>
    /\ pc = "idle"
    /\ input = <<>>
    /\ options = NoOptions
    /\ disk = <<>>
    /\ PrioritizerIdle
    /\ PriorityIdle
    /\ DirWalkIdle
    /\ ContextIdle
    /\ AnalyzerIdle

NextSanitize == Sanitize

SpecSanitize == InitSanitize /\ [][NextSanitize]_vars

InitWalk ==
    /\ GroupingIdle
    /\ ImportsIdle
    /\ GraphIdle
    /\ wpc = "config"
    /\ pattern = <<>>
    /\ sanitized = Accept(<<>>)
    /\ \E inc, ign, pri \in SeqsUpTo(WalkPatterns, MaxPatterns) :
          /\ Len(inc) + Len(ign) + Len(pri) <= MaxPatterns
          /\ walk_options = [include_patterns |-> inc, ignore_patterns |-> ign,
                             priority_patterns |-> pri]
    /\ compiled = <<>>
    /\ walk_error = NoError
    /\ failed_on = <<>>
    /\ pc = "idle"
    /\ input = <<>>
    /\ options = NoOptions
    /\ disk = <<>>
    /\ PrioritizerIdle
    /\ PriorityIdle
    /\ DirWalkIdle
    /\ ContextIdle
    /\ AnalyzerIdle

NextWalk ==
    \/ FromConfig
    \/ BuildWalkerOk
    \/ BuildWalkerErr

SpecWalk == InitWalk /\ [][NextWalk]_vars

\* The prioritizer is not running.
PrioritizerOff ==
    /\ pc = "idle"
    /\ input = <<>>
    /\ options = NoOptions
    /\ disk = <<>>
    /\ PrioritizerIdle

InitPriority ==
    /\ GroupingIdle
    /\ ImportsIdle
    /\ GraphIdle
    /\ cp_args \in [file_type : FileTypes, relative_path : RelPaths,
                    custom_priorities : SeqsUpTo(PriorityRules, MaxPatterns)]
    /\ cp_result = NotCalculated
    /\ PrioritizerOff
    /\ WalkerIdle
    /\ DirWalkIdle
    /\ ContextIdle
    /\ AnalyzerIdle

NextPriority == CalculatePriorityCall

SpecPriority == InitPriority /\ [][NextPriority]_vars

\* The patterns of the walks of the model: two globs and a blank pattern.
DirPatterns == {StarDotRs, TestsStarStar, Blank}

InitWalkDir ==
    /\ GroupingIdle
    /\ ImportsIdle
    /\ GraphIdle
    /\ wpc = "options"
    /\ pattern = <<>>
    /\ sanitized = Accept(<<>>)
    /\ \E inc, ign \in SeqsUpTo(DirPatterns, MaxPatterns) :
          /\ Len(inc) + Len(ign) <= MaxPatterns
          /\ walk_options = [include_patterns |-> inc, ignore_patterns |-> ign,
                             priority_patterns |-> <<>>]
    /\ compiled = <<>>
    /\ walk_error = NoError
    /\ failed_on = <<>>
    /\ \/ /\ root = RootDir
          /\ \E picked \in SUBSET (1..Len(TreeCatalog)) :
                entries = PickEntries(TreeCatalog, picked, 1)
       \/ /\ \E i \in 1..Len(TreeCatalog) :
                /\ ~TreeCatalog[i].is_dir
                /\ TreeCatalog[i].meta_ok
                /\ root = RootFile(TreeCatalog[i])
          /\ entries = <<>>
       \/ /\ root = RootMissing
          /\ entries = <<>>
    /\ \E m \in {NoLimit, MaxSize(SizeLimit)}, f \in BOOLEAN,
          c \in {<<>>, <<CompiledPriority(StarDotRs, 500000)>>} :
          walk_limits = WalkLimits(m, f, c, FALSE)
    /\ walk_pos = 0
    /\ walk_files = <<>>
    /\ first_walk = NotWalked
    /\ PrioritizerOff
    /\ PriorityIdle
    /\ ContextIdle
    /\ AnalyzerIdle

NextWalkDir ==
    \/ WalkMissingRoot
    \/ WalkSingleFile
    \/ StartWalk
    \/ VisitEntry
    \/ WalkReturn

SpecWalkDir == InitWalkDir /\ [][NextWalkDir]_vars

\* Walks of trees that hold items the traversal cannot read, in both modes.
InitWalkModes ==
    /\ GroupingIdle
    /\ ImportsIdle
    /\ GraphIdle
    /\ wpc = "options"
    /\ pattern = <<>>
    /\ sanitized = Accept(<<>>)
    /\ \E inc \in SeqsUpTo({StarDotRs}, 1), ign \in SeqsUpTo({TestsStarStar}, 1) :
          walk_options = [include_patterns |-> inc, ignore_patterns |-> ign,
                          priority_patterns |-> <<>>]
    /\ compiled = <<>>
    /\ walk_error = NoError
    /\ failed_on = <<>>
    /\ root = RootDir
    /\ \E picked \in SUBSET (1..Len(FaultyCatalog)) :
          entries = PickEntries(FaultyCatalog, picked, 1)
    /\ \E m \in {NoLimit, MaxSize(SizeLimit)}, par \in BOOLEAN :
          walk_limits = WalkLimits(m, FALSE, <<>>, par)
    /\ walk_pos = 0
    /\ walk_files = <<>>
    /\ first_walk = NotWalked
    /\ PrioritizerOff
    /\ PriorityIdle
    /\ ContextIdle
    /\ AnalyzerIdle

NextWalkModes ==
    \/ StartWalk
    \/ VisitEntry
    \/ WalkEntryFails
    \/ WalkReturn
    \/ WalkAgain

SpecWalkModes == InitWalkModes /\ [][NextWalkModes]_vars

\* The priorities of the grouped files: 1.0 and 2.0.
GroupedPriorities == {100, 200}

\* src/main.rs, src/lib.rs and tests/test.rs, as in test_group_by_directory.
ScenarioGroupFiles ==
    << FileInfo(1, 5, 100, <<>>), FileInfo(2, 4, 100, <<>>),
       FileInfo(3, 6, 80, <<>>) >>

InitGroup ==
    /\ \/ \E n \in 0..MaxFiles :
            \E rel \in [1..n -> GroupedPaths], prio \in [1..n -> GroupedPriorities] :
               group_files = [i \in 1..n |-> FileInfo(i, rel[i], prio[i], <<>>)]
       \/ group_files = ScenarioGroupFiles
    /\ groups = NotGrouped
    /\ ImportsIdle
    /\ GraphIdle
    /\ PrioritizerOff
    /\ WalkerIdle
    /\ PriorityIdle
    /\ DirWalkIdle
    /\ ContextIdle
    /\ AnalyzerIdle

NextGroup == GroupByDirectoryCall

SpecGroup == InitGroup /\ [][NextGroup]_vars

\* Imports per file in the checked calls.
MaxImports == 2

\* What an import can be: a module the resolver fails on, or "./x" and "x"
\* resolved to an internal or to an external file.
ImportKinds ==
    {<<m, ResolveFails>> :
        m \in {DotSlashX, DotSlashTwiceX, DotDotX, BareX, AbsoluteY}}
    \cup {<<DotSlashX, Resolved(ImporterParent \o <<"/", "x", ".", "ts">>, FALSE)>>,
          <<BareX, Resolved(<<"/", "node_modules", "/", "x">>, TRUE)>>}

\* The files that may exist next to the importer and elsewhere.
DiskPaths ==
    {Normalize(ImporterParent \o <<"/", "x", ".", e>>) : e \in {"js", "ts", "tsx"}}
    \cup {Normalize(ImporterParent \o <<"/", ".", ".", "/", "x", ".", "jsx">>),
          Normalize(AbsoluteY)}

InitImports ==
    /\ \E n \in 0..MaxImports :
          \E kinds \in [1..n -> ImportKinds], on_disk \in SUBSET DiskPaths,
             has_resolver \in BOOLEAN, trace_imports \in BOOLEAN :
             imp_call =
                ImportsCall(has_resolver, ImporterParent,
                            [i \in 1..n |-> Import(kinds[i][1], <<i>>, kinds[i][2])],
                            on_disk, trace_imports)
    /\ imp_edges = NotTraced
    /\ GroupingIdle
    /\ GraphIdle
    /\ PrioritizerOff
    /\ WalkerIdle
    /\ PriorityIdle
    /\ DirWalkIdle
    /\ ContextIdle
    /\ AnalyzerIdle

NextImports == TraceImports

SpecImports == InitImports /\ [][NextImports]_vars

InitGraph ==
    /\ \E n \in 0..MaxFiles :
          /\ dg_imports \in [1..n -> ImportLists]
          /\ dg_nodes = [f \in 1..n |-> GraphNode(<<>>, <<>>)]
    /\ dg_edges = {}
    /\ dg_pos = 0
    /\ GroupingIdle
    /\ ImportsIdle
    /\ PrioritizerOff
    /\ WalkerIdle
    /\ PriorityIdle
    /\ DirWalkIdle
    /\ ContextIdle
    /\ AnalyzerIdle

NextGraph ==
    \/ AddFileEdges
    \/ SetAdjacency

SpecGraph == InitGraph /\ [][NextGraph]_vars


InitContext ==
    /\ GroupingIdle
    /\ ImportsIdle
    /\ GraphIdle
    /\ \E seed \in SourceFiles, max_depth \in 0..MaxDepth :
          chain = <<NewContext(seed, BaseDir, max_depth)>>
    /\ last_call = NoCall
    /\ PrioritizerOff
    /\ WalkerIdle
    /\ PriorityIdle
    /\ DirWalkIdle
    /\ AnalyzerIdle

NextContext ==
    \/ \E file \in SourceFiles : ChildContextCall(file)
    \/ ReturnToParent

SpecContext == InitContext /\ [][NextContext]_vars

InitAnalyze ==
    /\ GroupingIdle
    /\ ImportsIdle
    /\ GraphIdle
    /\ apc = "running"
    /\ an_files \in SeqsUpTo(AnalyzedPaths, MaxFiles)
    /\ an_disk \in [AnalyzedPaths -> DiskEntries]
    /\ an_options \in AnalysisOptionSet
    /\ semantic_cache = <<>>
    /\ an_workers = [i \in 1..Len(an_files) |->
                       Worker("start", "none", FALSE, EmptyAnalysis)]
    /\ an_results = [i \in 1..Len(an_files) |-> PendingAnalysis]
    /\ an_errors = <<>>
    /\ PrioritizerOff
    /\ WalkerIdle
    /\ PriorityIdle
    /\ DirWalkIdle
    /\ ContextIdle

NextAnalyze ==
    \/ \E i \in 1..Len(an_files) : LookupStep(i)
    \/ \E i \in 1..Len(an_files) : AnalyzeStep(i)
    \/ ReturnResults

SpecAnalyze == InitAnalyze /\ [][NextAnalyze]_vars

-----------------------------------------------------------------------------
(* Properties of prioritize_files (specification Spec) *)

\* Token count of a file, as the counter reports it.
TokensOf(f) == disk[f.path].tokens

RECURSIVE SumTokens(_)
SumTokens(fs) == IF fs = <<>> THEN 0 ELSE TokensOf(Head(fs)) + SumTokens(Tail(fs))

Returned == pc = "done"
Budgeted == options.has_limit

\* Positions of the sorted candidates that were admitted.
Admitted(k) ==
    \E j \in 1..Len(selected_files) :
        selected_files[j].path = files_with_tokens[k].file.path

\* Tokens of the candidates admitted before position k.
RECURSIVE AdmittedBefore(_)
AdmittedBefore(k) ==
    IF k <= 1 THEN 0
    ELSE AdmittedBefore(k - 1)
         + (IF Admitted(k - 1) THEN files_with_tokens[k - 1].token_count ELSE 0)

\* C1 as stated: for every returned list S, of any length, overhead plus the
\* token counts of S is at most the budget.
C1_BudgetAnyLength ==
    (Returned /\ Budgeted) =>
        structure_overhead + SumTokens(selected_files) <= options.max_tokens

\* C1, amended: when the overhead fits the budget, overhead plus the token
\* counts of the returned files is at most the budget; when the overhead
\* alone exceeds the budget, nothing is admitted.
C1_BudgetRespected ==
    (pc \in {"selecting", "done"} /\ Budgeted) =>
        IF structure_overhead <= options.max_tokens
        THEN structure_overhead + SumTokens(selected_files) <= options.max_tokens
        ELSE selected_files = <<>>

\* A budgeted call returned two files and rejected a candidate.
C1_Witness ==
    /\ Returned /\ Budgeted
    /\ Len(selected_files) = 2
    /\ Len(files_with_tokens) = 3
    /\ structure_overhead > 0

C3_GreedyScan ==
    /\ (pc = "selecting" /\ Budgeted) =>
            /\ total_tokens = structure_overhead + SumTokens(selected_files)
            /\ total_tokens = structure_overhead + AdmittedBefore(cursor)
    /\ (pc \in {"selecting", "done"} /\ Budgeted) =>
            \A k \in 1..(cursor - 1) :
                Admitted(k) <=>
                    structure_overhead + AdmittedBefore(k)
                      + files_with_tokens[k].token_count <= options.max_tokens
    /\ (Returned /\ Budgeted) => cursor = Len(files_with_tokens) + 1
    /\ (Returned /\ input = ScenarioS4Files) =>
            /\ structure_overhead = 200
            /\ [i \in 1..Len(selected_files) |-> selected_files[i].path] = <<1, 2, 4>>

\* Scenario S4 has run: a candidate was rejected and a later one admitted.
C3_Witness ==
    /\ Returned
    /\ input = ScenarioS4Files
    /\ ~Admitted(3)
    /\ Admitted(4)
    /\ total_tokens = 1000

\* C4: without a budget the output is a permutation of the input (every
\* file once), sorted by priority descending then relative path ascending,
\* and no file is read or counted.
C4_UnlimitedReturnsAll ==
    (Returned /\ ~Budgeted) =>
        /\ Len(selected_files) = Len(input)
        /\ \A i \in 1..Len(input) :
              Cardinality({j \in 1..Len(selected_files) :
                              selected_files[j].path = input[i].path}) = 1
        /\ \A j \in 1..Len(selected_files) :
              \E i \in 1..Len(input) : selected_files[j] = files[i]
        /\ \A i, j \in 1..Len(selected_files) :
              i < j =>
                 \/ selected_files[i].priority > selected_files[j].priority
                 \/ /\ selected_files[i].priority = selected_files[j].priority
                    /\ selected_files[i].relative_path <= selected_files[j].relative_path
        /\ loads = {}
        /\ results = <<>>

\* An unbudgeted call returned three files in another order than it got them.
C4_Witness ==
    /\ Returned /\ ~Budgeted
    /\ Len(input) = 3
    /\ selected_files[1].path = 2
    /\ selected_files[3].path = 1

\* The successes of the token count taken in input order.
RECURSIVE InOrderSuccesses(_, _)
InOrderSuccesses(fs, i) ==
    IF i > Len(fs) THEN <<>>
    ELSE (IF disk[fs[i].path].ok
          THEN <<[file |-> fs[i], token_count |-> disk[fs[i].path].tokens]>>
          ELSE <<>>) \o InOrderSuccesses(fs, i + 1)

RECURSIVE ScanInOrder(_, _, _)
ScanInOrder(cands, running, max) ==
    IF cands = <<>> THEN <<>>
    ELSE IF running + Head(cands).token_count > max
         THEN ScanInOrder(Tail(cands), running, max)
         ELSE <<Head(cands).file>>
              \o ScanInOrder(Tail(cands), running + Head(cands).token_count, max)

\* The list a run returns when the items of the map finish in input order.
InOrderRun ==
    LET fs == AdjustPriorities(input)
    IN IF ~options.has_limit THEN SortByPriority(fs)
       ELSE ScanInOrder(SortCandidates(InOrderSuccesses(fs, 1)),
                        CalculateStructureOverhead(options, fs),
                        options.max_tokens)

\* C5: whatever order the parallel token-count items finish in, the returned
\* list is the one of the run in which they finish in input order.
C5_Deterministic == Returned => selected_files = InOrderRun

\* A run whose items finished out of input order returned two files with
\* equal priority and relative path.
C5_Witness ==
    /\ Returned /\ Budgeted
    /\ reordered
    /\ \E i, j \in 1..Len(selected_files) :
          /\ i < j
          /\ selected_files[i].priority = selected_files[j].priority
          /\ selected_files[i].relative_path = selected_files[j].relative_path

\* The read or the token count of the file failed.
CountFailed(f) == ~disk[f.path].ok

\* The files whose read and count succeed, in input order, with their
\* token counts.
Countable ==
    LET ok == SelectSeq(files, LAMBDA f : ~CountFailed(f))
    IN [k \in 1..Len(ok) |-> [file |-> ok[k], token_count |-> TokensOf(ok[k])]]

\* The greedy selection over a candidate list, from a running total.
RECURSIVE SelectOver(_, _)
SelectOver(cands, running) ==
    IF cands = <<>> THEN <<>>
    ELSE IF WouldExceedLimit(running, Head(cands).token_count,
                             options.max_tokens)
         THEN SelectOver(Tail(cands), running)
         ELSE <<Head(cands).file>>
              \o SelectOver(Tail(cands), running + Head(cands).token_count)

-----------------------------------------------------------------------------
(* Properties of Phase A (specification SpecAdjust) *)

Adjusted == pc = "adjusted"

\* 0.2 x p, in hundredths.
Fifth(p) == p \div 5

\* Sum of 0.2 x priority(F) over a set of <<F, k>> pairs.
RECURSIVE SumFifths(_)
SumFifths(E) ==
    IF E = {} THEN 0
    ELSE LET e == CHOOSE x \in E : TRUE
         IN Fifth(input[e[1]].priority) + SumFifths(E \ {e})

\* The importers of file g, each once.
Importers(g) ==
    {<<f, 1>> : f \in {f \in 1..Len(input) :
                          input[g].path \in Range(input[f].imports)}}

\* The entries of imports lists that name file g.
ImportEntries(g) ==
    {e \in (1..Len(input)) \X (1..2) :
        /\ e[2] <= Len(input[e[1]].imports)
        /\ input[e[1]].imports[e[2]] = input[g].path}

\* C6 as stated: every file F with imports adds 0.2 x priority(F), whatever
\* F's priority, to every file it imports that is in the working set.
C6_EveryImporterAdds ==
    Adjusted =>
        \A g \in 1..Len(input) :
            files[g].priority = input[g].priority + SumFifths(Importers(g))

\* C6, amended: with boost(G) the sum of 0.2 x priority(F) over every entry
\* of an imports list that names G, the priority of G becomes
\* min(priority(G) + boost(G), 5.0) when boost(G) > 0 and is unchanged
\* otherwise; paths absent from the working set add nothing (S3 gives 2.0,
\* 1.4, 1.2, 0.5).
C6_PositiveBoostCapped ==
    Adjusted =>
        /\ Len(files) = Len(input)
        /\ \A g \in 1..Len(input) :
              LET boost == SumFifths(ImportEntries(g))
              IN files[g].priority =
                    IF boost > 0
                    THEN (IF input[g].priority + boost <= 500
                          THEN input[g].priority + boost ELSE 500)
                    ELSE input[g].priority
        /\ input = ScenarioS3Files =>
              [g \in 1..4 |-> files[g].priority] = <<200, 140, 120, 50>>

\* Scenario S3 has run.
C6_Witness ==
    /\ Adjusted
    /\ input = ScenarioS3Files
    /\ files[2].priority = 140
    /\ files[4].priority = 50

\* C7 as stated: after Phase A every file has priority <= 5.0.
C7_AllCapped ==
    Adjusted => \A g \in 1..Len(files) : files[g].priority <= PriorityCap

-----------------------------------------------------------------------------
(* Properties of sanitize_pattern (specification SpecSanitize) *)

\* C8 as stated: a pattern is rejected iff it is longer than 1000
\* characters, or holds a null byte, a control character, U+2028, U+2029 or
\* U+FEFF, or starts with '/' or '\', or contains ".."; every other pattern
\* is returned unchanged.
C8_RejectsExactlyListed ==
    wpc = "sanitized" =>
        /\ ~sanitized.ok <=>
              \/ CharLen(pattern) > 1000
              \/ \E i \in 1..Len(pattern) :
                    LET c == pattern[i][1]
                    IN c = 0 \/ IsControl(c) \/ c \in {8232, 8233, 65279}
              \/ StartsWith(pattern, 47) \/ StartsWith(pattern, 92)
              \/ ContainsDotDot(pattern)
        /\ sanitized.ok => sanitized.value = pattern

-----------------------------------------------------------------------------
(* Properties of build_walker (specification SpecWalk) *)

\* C9 as stated: when sanitization rejects an include or ignore pattern, the
\* walk fails with an invalid-configuration error whose message contains the
\* rejected pattern.
C9_RejectionNamesPattern ==
    wpc = "failed" =>
        /\ walk_error.kind = "InvalidConfiguration"
        /\ \E i \in 1..Len(walk_error.message) :
              walk_error.message[i] = Quoted(failed_on)

\* C10 as stated: every user-supplied pattern handed to a glob compiler
\* (include, ignore or custom-priority) is one sanitize_pattern accepts.
C10_CompiledOnlyIfSanitized ==
    \A i \in 1..Len(compiled) :
        compiled[i].origin \in {"include", "ignore", "priority"} =>
            SanitizePattern(compiled[i].pattern).ok


-----------------------------------------------------------------------------
(* Properties of the directory walk (specification SpecWalkDir) *)

\* Some pattern of the list matches the path.
MatchesAny(list, rel) == \E i \in 1..Len(list) : GlobMatches(list[i], rel)

\* walk_directory returned Ok(files) for a directory.
DirWalkReturned == wpc = "returned" /\ root.kind = "dir"

ReturnedPaths == {walk_files[i].relative_path : i \in 1..Len(walk_files)}

C12_EveryResultFiltered ==
    wpc = "returned" =>
        \A i \in 1..Len(walk_files) :
            /\ walk_limits.max_file_size.set =>
                  walk_files[i].size <= walk_limits.max_file_size.bytes
            /\ walk_limits.filter_binary_files =>
                  /\ ~IsBinaryExtension(walk_files[i].relative_path)
                  /\ walk_files[i].file_type # "Other"

-----------------------------------------------------------------------------
(* Properties of calculate_priority (specification SpecPriority) *)

\* C13 as stated: calculate_priority returns at most 2.0.
C13_ResultCapped ==
    cp_result.done => cp_result.priority <= ScoreCap

\* The positions of the rules whose pattern matches the path.
MatchingRules ==
    {i \in 1..Len(cp_args.custom_priorities) :
        GlobMatches(cp_args.custom_priorities[i].matcher,
                    cp_args.relative_path)}

\* C14: without a matching rule calculate_priority returns the base
\* priority; otherwise it returns the base priority plus the weight of the
\* first matching rule in list order, and no later rule contributes.
C14_FirstMatchAdditive ==
    cp_result.done =>
        LET base == CalculateBasePriority(cp_args.file_type,
                                          cp_args.relative_path)
        IN IF MatchingRules = {}
           THEN cp_result.priority = base
           ELSE \E i \in MatchingRules :
                   /\ \A j \in MatchingRules : i <= j
                   /\ cp_result.priority =
                         base + cp_args.custom_priorities[i].weight

\* Two rules match tests/foo_test.rs, the first with a negative weight and
\* the second with another weight: the first one was applied.
C14_Witness ==
    /\ cp_result.done
    /\ cp_args.relative_path = RelPath("tests", "foo_test", "rs")
    /\ Len(cp_args.custom_priorities) = 2
    /\ MatchingRules = {1, 2}
    /\ cp_args.custom_priorities[1].weight < 0
    /\ cp_args.custom_priorities[2].weight > 0
    /\ cp_result.priority < CalculateBasePriority(cp_args.file_type,
                                                  cp_args.relative_path)


-----------------------------------------------------------------------------
(* Properties of SemanticContext (specification SpecContext) *)

\* C15: child_context(file) returns a context exactly when the parent has
\* depth left (current_depth < max_depth) and file is not in its
\* visited_files, and nothing otherwise; a returned child has the file as
\* current_file, the depth of the parent plus one, the visited set of the
\* parent plus the file, and the base_dir and max_depth of the parent; the
\* parent is as it was before the call.
C15_ChildContextTotal ==
    last_call.made =>
        LET parent == last_call.parent
            file == last_call.file
            r == last_call.result
        IN /\ r.some <=> (parent.current_depth < parent.max_depth
                            /\ file \notin parent.visited_files)
           /\ r.some =>
                 /\ r.ctx.current_file = file
                 /\ r.ctx.current_depth = parent.current_depth + 1
                 /\ r.ctx.visited_files = parent.visited_files \cup {file}
                 /\ r.ctx.base_dir = parent.base_dir
                 /\ r.ctx.max_depth = parent.max_depth
                 /\ chain[Len(chain)] = r.ctx
                 /\ chain[Len(chain) - 1] = parent
           /\ ~r.some => chain[Len(chain)] = parent

\* A grandchild was derived, and a call for a visited file returned
\* nothing although there was depth left.
C15_Witness ==
    /\ last_call.made
    /\ ~last_call.result.some
    /\ last_call.parent.current_depth = 2
    /\ last_call.parent.current_depth < last_call.parent.max_depth
    /\ last_call.file \in last_call.parent.visited_files

\* C16 as stated: on a chain of contexts from the seed, no file is the
\* current file of two contexts, and the visited set grows along the chain.
C16_NoFileTwiceOnChain ==
    /\ \A i, j \in 1..Len(chain) :
          i < j => chain[i].current_file # chain[j].current_file
    /\ \A i \in 1..Len(chain) - 1 :
          chain[i].visited_files \subseteq chain[i + 1].visited_files

\* C17: every context of a chain has 0 <= current_depth <= max_depth, its
\* depth is the number of derivations that led to it, a chain has at most
\* max_depth derivations, and with max_depth = 0 no child is derived.
C17_DepthBounded ==
    /\ \A i \in 1..Len(chain) :
          /\ 0 <= chain[i].current_depth
          /\ chain[i].current_depth <= chain[i].max_depth
          /\ chain[i].current_depth = i - 1
          /\ chain[i].max_depth = chain[1].max_depth
    /\ chain # <<>> => Len(chain) - 1 <= chain[1].max_depth
    /\ (last_call.made /\ last_call.parent.max_depth = 0) =>
          ~last_call.result.some

\* A chain of max_depth derivations, and a call for a file not yet
\* visited that returned nothing.
C17_Witness ==
    /\ Len(chain) = 3
    /\ chain[1].max_depth = 2
    /\ last_call.made
    /\ ~last_call.result.some
    /\ last_call.file \notin last_call.parent.visited_files

-----------------------------------------------------------------------------
(* Properties of ParallelAnalyzer (specification SpecAnalyze) *)

\* The key of item i.
KeyOf(i) == CacheKey(an_files[i], ContentHash(ContentAt(an_files[i])))

\* Item i is complete and got an analysis, from the cache or the analyzer.
HasAnalysis(i) ==
    /\ an_workers[i].pos = "done"
    /\ \/ an_workers[i].via = "hit"
       \/ an_workers[i].via = "miss" /\ an_disk[an_files[i]].parses

\* C18: under every interleaving of the workers, a lookup that hits returns
\* the result stored for the key and the analyzer is not run; a miss runs
\* the analyzer and its result is in the cache under the key; and any two
\* items with the same (path, content hash) got equal AnalysisResults, also
\* when both missed and both inserted.
C18_CacheIsFunction ==
    \A i \in 1..Len(an_files) :
        /\ (an_workers[i].pos = "done" /\ an_workers[i].via = "hit") =>
              /\ ~an_workers[i].ran
              /\ CacheHas(semantic_cache, KeyOf(i))
              /\ an_workers[i].analysis = semantic_cache[KeyOf(i)]
        /\ (an_workers[i].pos = "done" /\ an_workers[i].via = "miss") =>
              /\ an_workers[i].ran
              /\ an_disk[an_files[i]].parses =>
                    /\ CacheHas(semantic_cache, KeyOf(i))
                    /\ semantic_cache[KeyOf(i)] = an_workers[i].analysis
        /\ \A j \in 1..Len(an_files) :
              (HasAnalysis(i) /\ HasAnalysis(j) /\ KeyOf(i) = KeyOf(j)) =>
                  an_workers[i].analysis = an_workers[j].analysis

\* Two workers missed on the same key and both ran the analyzer and
\* inserted; a third one hit.
C18_Witness ==
    /\ Len(an_files) = 3
    /\ an_files[1] = an_files[2]
    /\ an_files[2] = an_files[3]
    /\ \A i \in 1..3 : HasAnalysis(i)
    /\ \E i, j, k \in 1..3 :
          /\ i # j
          /\ an_workers[i].via = "miss"
          /\ an_workers[j].via = "miss"
          /\ an_workers[k].via = "hit"
          /\ an_workers[k].analysis # EmptyAnalysis

\* analyze_single_file fails on the path: the file cannot be read, its
\* analysis fails, or its imports are traced and there is no resolver.
AnalysisFails(path) ==
    LET entry == an_disk[path]
    IN \/ ~entry.readable
       \/ entry.analyzer /\ ~entry.parses
       \/ entry.analyzer /\ an_options.trace_imports /\ ~entry.resolver_ok

\* The imports, by the table of the files: file 1 imports 2, file 2
\* imports 1, externals dropped.
ExpectedImports(path) ==
    IF an_options.trace_imports THEN << <<3 - path, "Import">> >> ELSE <<>>

\* C19: analyze_files returns one result an input file, in input order,
\* result i with file_index i (from 0); a file whose analysis failed has
\* empty imports, function calls, type references and exported functions
\* and its error recorded; every other file has the result of its own
\* analysis, whatever happened to the others.
C19_OneResultPerFile ==
    apc = "returned" =>
        /\ Len(an_results) = Len(an_files)
        /\ \A i \in 1..Len(an_files) :
              LET r == an_results[i]
                  path == an_files[i]
              IN /\ r.file_index = i - 1
                 /\ AnalysisFails(path) =>
                       /\ r.imports = <<>>
                       /\ r.function_calls = <<>>
                       /\ r.type_references = <<>>
                       /\ r.exported_functions = <<>>
                       /\ r.error.some
                       /\ r.error.path = path
                       /\ \E k \in 1..Len(an_errors) : an_errors[k] = r.error
                 /\ (~AnalysisFails(path) /\ an_disk[path].analyzer) =>
                       /\ ~r.error.some
                       /\ r.imports = ExpectedImports(path)
                       /\ r.function_calls =
                             (IF an_options.include_functions
                              THEN <<"call", path>> ELSE <<>>)
                       /\ r.type_references =
                             (IF an_options.include_types
                              THEN <<"type", ContentAt(path)>> ELSE <<>>)
                       /\ r.exported_functions =
                             (IF an_options.own_include_functions
                              THEN <<"fn", path>> ELSE <<>>)
                 /\ (~AnalysisFails(path) /\ ~an_disk[path].analyzer) =>
                       /\ ~r.error.some
                       /\ r.imports = <<>>
                       /\ r.content_hash.some

\* Three files, the second one failed and is retained empty, the first and
\* the third have their imports.
C19_Witness ==
    /\ apc = "returned"
    /\ Len(an_files) = 3
    /\ AnalysisFails(an_files[2])
    /\ an_results[2].error.some
    /\ an_results[2].file_index = 1
    /\ ~AnalysisFails(an_files[1])
    /\ an_results[1].imports # <<>>
    /\ an_results[3].imports # <<>>
    /\ an_results[3].file_index = 2

-----------------------------------------------------------------------------
(* The frame of Phase A (specification SpecAdjust) *)

\* File g of the input is named by no imports list of the working set.
NotImported(g) ==
    \A f \in 1..Len(input) : input[g].path \notin Range(input[f].imports)

\* C26: Phase A keeps the number and the order of the files; of every file it
\* changes at most the priority; and a file that no file of the working set
\* imports keeps the priority it had on entry, whatever that priority is.
C26_OnlyImportedPrioritiesChange ==
    Adjusted =>
        /\ Len(files) = Len(input)
        /\ \A g \in 1..Len(input) :
              /\ [files[g] EXCEPT !.priority = input[g].priority] = input[g]
              /\ NotImported(g) => files[g].priority = input[g].priority

\* Phase A has boosted one file and left alone a file nobody imports whose
\* priority is above 5.0.
C26_Witness ==
    /\ Adjusted
    /\ \E g, h \in 1..Len(input) :
          /\ NotImported(g)
          /\ input[g].priority = 600
          /\ files[g] = input[g]
          /\ ~NotImported(h)
          /\ files[h].priority # input[h].priority

-----------------------------------------------------------------------------
(* Maximality of the budgeted selection (specification Spec) *)

\* The positions of files_with_tokens the returned files were taken from:
\* strictly increasing, one position a returned file.
TakenFrom(pos) ==
    /\ \A j \in 1..Len(selected_files) :
          selected_files[j] = files_with_tokens[pos[j]].file
    /\ \A i, j \in 1..Len(selected_files) : i < j => pos[i] < pos[j]

\* C27: when the budgeted prioritize_files returns, every candidate that was
\* counted but not admitted no longer fits (overhead + admitted token counts
\* + its count > max_tokens), and the returned list is a subsequence of the
\* sorted candidates that takes no candidate twice.
C27_GreedyMaximal ==
    (Returned /\ Budgeted) =>
        /\ \A k \in 1..Len(files_with_tokens) :
              ~Admitted(k) =>
                  structure_overhead + SumTokens(selected_files)
                    + files_with_tokens[k].token_count > options.max_tokens
        /\ \E pos \in [1..Len(selected_files) -> 1..Len(files_with_tokens)] :
              TakenFrom(pos)

\* Scenario S4 has returned: the 500-token candidate was rejected and does not
\* fit beside the three admitted ones, which fill the budget exactly.
C27_Witness ==
    /\ Returned
    /\ Budgeted
    /\ Len(files_with_tokens) = 4
    /\ Len(selected_files) = 3
    /\ ~Admitted(3)
    /\ structure_overhead + SumTokens(selected_files) = options.max_tokens
    /\ files_with_tokens[3].token_count = 500

-----------------------------------------------------------------------------
(* The options of the call and the cache after a failure (SpecAnalyze) *)

\* C29 as stated: the options passed to analyze_files alone decide the
\* fields of every result: include_functions = false empties function_calls
\* and exported_functions, include_types = false empties type_references and
\* trace_imports = false empties imports, however the analyzer was built.
C29_PassedOptionsDecide ==
    apc = "returned" =>
        \A i \in 1..Len(an_results) :
            LET r == an_results[i]
            IN /\ ~an_options.include_functions =>
                     /\ r.function_calls = <<>>
                     /\ r.exported_functions = <<>>
               /\ ~an_options.include_types => r.type_references = <<>>
               /\ ~an_options.trace_imports => r.imports = <<>>

\* The analyzer fails on the file of item i, which has an analyzer and can
\* be read.
FailsToParse(i) ==
    LET entry == an_disk[an_files[i]]
    IN entry.analyzer /\ entry.readable /\ ~entry.parses

\* C30: a failed analysis leaves the semantic cache as it was: the cache
\* never holds an entry for a file whose analysis fails, every entry it
\* holds is the result of a successful analysis of its own key, and every
\* analysis of a failing file, also one started after an earlier failure on
\* the same file, misses, runs the analyzer and reports the failure.
C30_FailureNotCached ==
    /\ \A key \in DOMAIN semantic_cache :
          /\ an_disk[key[1]].parses
          /\ key[2] = ContentHash(ContentAt(key[1]))
          /\ semantic_cache[key] = Analyze(key[1], ContentAt(key[1]))
    /\ \A i \in 1..Len(an_files) :
          (FailsToParse(i) /\ an_workers[i].pos = "done") =>
              /\ an_workers[i].via = "miss"
              /\ an_workers[i].ran
              /\ an_results[i].error.some
              /\ an_results[i].error.cause = "analysis"
              /\ ~CacheHas(semantic_cache, KeyOf(i))

\* The analysis of a file failed, a later item on the same file started
\* only then and failed again, while the entry of another file stayed in
\* the cache.
C30_Witness ==
    /\ Len(an_files) = 3
    /\ an_files[1] # an_files[2]
    /\ an_files[2] = an_files[3]
    /\ CacheHas(semantic_cache, KeyOf(1))
    /\ FailsToParse(2)
    /\ an_workers[2].pos = "done"
    /\ an_workers[3].pos = "missed"
    /\ DOMAIN semantic_cache = {KeyOf(1)}

-----------------------------------------------------------------------------
(* The two walking modes (specification SpecWalkModes) *)

WalkOver == wpc \in {"returned", "failed"}

\* The texts of the errors the walk of the tree meets: those of the items
\* the traversal could not read and those of process_file.
ErrorsMet ==
    {entries[i].error : i \in {i \in 1..Len(entries) : entries[i].error # NoText}}
      \cup Range(ProcessingErrors(entries, OverrideGlobs, walk_limits))

IsCritical(text) ==
    Contains(text, "Permission denied") \/ Contains(text, "Invalid")

\* The files of the items that could be read, as process_file keeps them.
ReadableFiles ==
    LET kept == SelectSeq(Processed(entries, OverrideGlobs),
                          LAMBDA e : ProcessFile(e, walk_limits).some)
    IN {ProcessFile(kept[i], walk_limits).file : i \in 1..Len(kept)}

\* C21 as stated: in parallel mode an error met while traversing or
\* processing whose text contains "Permission denied" or "Invalid" makes
\* walk_directory fail with one message listing the critical errors; when
\* no error met is critical the errors are dropped and the remaining files
\* are returned.
C21_CriticalErrorsAbort ==
    (WalkOver /\ walk_limits.parallel) =>
        IF \E t \in ErrorsMet : IsCritical(t)
        THEN /\ wpc = "failed"
             /\ walk_error.kind = "Critical"
             /\ \A t \in ErrorsMet :
                   IsCritical(t) => t \in Range(walk_error.message)
        ELSE /\ wpc = "returned"
             /\ Range(walk_files) = ReadableFiles

\* C28 as stated: for the same root, options and tree, items the traversal
\* cannot read included, the walk with parallel = true and the walk with
\* parallel = false both fail or both return the same set of FileInfo.
C28_ModesAgree ==
    (WalkOver /\ first_walk.done) =>
        /\ first_walk.parallel # walk_limits.parallel
        /\ first_walk.ok <=> (wpc = "returned")
        /\ first_walk.ok => first_walk.files = Range(walk_files)

-----------------------------------------------------------------------------
(* Properties of the dependency graph (specification SpecGraph) *)

GraphBuilt == dg_pos = Len(dg_imports) + 1

\* C22: after the construction of the dependency graph, for every pair of
\* files F and G of the working set, F is in imports(G) if and only if G is
\* in imported_by(F); the imports of a file are its resolved internal
\* imports that are files of the working set.
C22_ImportsMirrorImportedBy ==
    GraphBuilt =>
        \A F, G \in 1..Len(dg_nodes) :
            /\ F \in Range(dg_nodes[G].imports)
                  <=> G \in Range(dg_nodes[F].imported_by)
            /\ F \in Range(dg_nodes[G].imports) <=> F \in Range(dg_imports[G])

\* Three files: one imports the two others, one imports a file with a smaller
\* index, and one imports only a path outside the working set.
C22_Witness ==
    /\ GraphBuilt
    /\ Len(dg_nodes) = 3
    /\ dg_imports[1] = <<2, 3>>
    /\ dg_imports[2] = <<1>>
    /\ dg_imports[3] = <<9>>
    /\ dg_nodes[1].imported_by = <<2>>
    /\ dg_nodes[3].imported_by = <<1>>
    /\ dg_nodes[3].imports = <<>>

-----------------------------------------------------------------------------
(* Properties of group_by_directory (specification SpecGroup) *)

Grouped == groups.done

\* The places of the result that hold the file at position i of the input.
PlacesOf(i) ==
    {pl \in (1..Len(groups.result)) \X (1..Len(group_files)) :
        /\ pl[2] <= Len(groups.result[pl[1]].files)
        /\ groups.result[pl[1]].files[pl[2]] = group_files[i]}

\* C23: group_by_directory partitions its input: every input file is in
\* exactly one group, the one keyed by the parent directory of its relative
\* path; no group is empty; the groups come in ascending order of key; and
\* inside a group the files are ordered by priority descending, ties by
\* ascending relative path (src/main.rs, src/lib.rs and tests/test.rs give
\* "src" with 2 files, then "tests" with 1).
C23_GroupsPartition ==
    Grouped =>
        LET r == groups.result
        IN /\ \A i \in 1..Len(group_files) :
                 /\ Cardinality(PlacesOf(i)) = 1
                 /\ \A pl \in PlacesOf(i) :
                       r[pl[1]].dir = ParentDir(group_files[i].relative_path)
           /\ \A g \in 1..Len(r) :
                 /\ r[g].files # <<>>
                 /\ \A j \in 1..Len(r[g].files) :
                       \E i \in 1..Len(group_files) :
                          r[g].files[j] = group_files[i]
                 /\ \A j, k \in 1..Len(r[g].files) :
                       j < k =>
                          \/ r[g].files[j].priority > r[g].files[k].priority
                          \/ /\ r[g].files[j].priority = r[g].files[k].priority
                             /\ r[g].files[j].relative_path
                                   <= r[g].files[k].relative_path
           /\ \A g, h \in 1..Len(r) :
                 g < h => DirRank(r[g].dir) < DirRank(r[h].dir)
           /\ group_files = ScenarioGroupFiles =>
                 /\ [g \in 1..Len(r) |-> r[g].dir] = <<"src", "tests">>
                 /\ Len(r[1].files) = 2
                 /\ Len(r[2].files) = 1

\* The three files of the test were grouped: "src" first, with src/lib.rs
\* before src/main.rs on equal priority, then "tests".
C23_Witness ==
    /\ Grouped
    /\ group_files = ScenarioGroupFiles
    /\ Len(groups.result) = 2
    /\ groups.result[1].dir = "src"
    /\ groups.result[1].files[1].relative_path = 4
    /\ groups.result[1].files[2].relative_path = 5
    /\ groups.result[2].dir = "tests"

-----------------------------------------------------------------------------
(* Properties of process_imports (specification SpecImports) *)

Traced == imp_edges.done

\* The edges import i produced: the symbols of import i are <<i>>.
EdgesFrom(i) == SelectSeq(imp_edges.edges, LAMBDA e : e.symbols = <<i>>)

\* The candidate of manual resolution for an extension: a leading "./" is
\* stripped and the rest is joined to the importer's parent.
Candidate(module, ext) ==
    Join(imp_call.parent, TrimOnce(module) \o <<".", ext>>)

\* The candidate manual resolution has to find: the first of js, jsx, ts
\* and tsx that exists.
FirstCandidate(module) ==
    LET on(ext) == Exists(imp_call.on_disk, Candidate(module, ext))
    IN IF on("js") THEN Candidate(module, "js")
       ELSE IF on("jsx") THEN Candidate(module, "jsx")
       ELSE IF on("ts") THEN Candidate(module, "ts")
       ELSE Candidate(module, "tsx")

SomeCandidate(module) ==
    \E ext \in {"js", "jsx", "ts", "tsx"} :
        Exists(imp_call.on_disk, Candidate(module, ext))

\* C24: when there is a resolver and it fails on a module, a module that
\* begins with '.' gets exactly one edge, to the first of X.js, X.jsx, X.ts,
\* X.tsx that exists next to the importer (X.js when X.js and X.ts both
\* exist), and no edge when none exists; a module that does not begin with
\* '.' gets an edge exactly when it is an absolute path that exists.
C24_ManualResolution ==
    (Traced /\ imp_call.trace_imports /\ imp_call.has_resolver) =>
        \A i \in 1..Len(imp_call.imports) :
            LET import == imp_call.imports[i]
            IN ~import.resolution.ok =>
                 IF StartsWithDot(import.module)
                 THEN IF SomeCandidate(import.module)
                      THEN /\ Len(EdgesFrom(i)) = 1
                           /\ Normalize(EdgesFrom(i)[1].path)
                                 = Normalize(FirstCandidate(import.module))
                      ELSE EdgesFrom(i) = <<>>
                 ELSE EdgesFrom(i) =
                         IF /\ IsAbsolute(import.module)
                            /\ Exists(imp_call.on_disk, import.module)
                         THEN <<ImportEdge(import.module, <<i>>)>>
                         ELSE <<>>

\* The resolver failed on "././x" and on an absolute path; x.js and x.ts
\* both exist: the first edge targets x.js, the second the absolute path.
C24_Witness ==
    /\ Traced
    /\ imp_call.trace_imports
    /\ imp_call.has_resolver
    /\ Len(imp_call.imports) = 2
    /\ imp_call.imports[1] = Import(DotSlashTwiceX, <<1>>, ResolveFails)
    /\ imp_call.imports[2] = Import(AbsoluteY, <<2>>, ResolveFails)
    /\ Normalize(ImporterParent \o <<"/", "x", ".", "js">>) \in imp_call.on_disk
    /\ Normalize(ImporterParent \o <<"/", "x", ".", "ts">>) \in imp_call.on_disk
    /\ imp_edges.edges =
          << ImportEdge(ImporterParent \o <<"/", "x", ".", "js">>, <<1>>),
             ImportEdge(AbsoluteY, <<2>>) >>

\* Import i resolves to the internal file at path, by the resolver, by
\* manual resolution or by the absolute-path fallback.
ResolvesTo(i, path) ==
    LET import == imp_call.imports[i]
        by_resolver == imp_call.has_resolver /\ import.resolution.ok
        manual == /\ imp_call.has_resolver
                  /\ ~import.resolution.ok
                  /\ StartsWithDot(import.module)
    IN \/ by_resolver /\ ~import.resolution.is_external
                      /\ path = import.resolution.path
       \/ /\ manual
          /\ \E ext \in {"js", "jsx", "ts", "tsx"} :
                /\ Normalize(path) = Normalize(Candidate(import.module, ext))
                /\ Exists(imp_call.on_disk, path)
       \/ /\ ~by_resolver
          /\ ~manual
          /\ IsAbsolute(import.module)
          /\ Exists(imp_call.on_disk, import.module)
          /\ path = import.module

\* No resolution step resolves import i.
Unresolved(i) ==
    LET import == imp_call.imports[i]
    IN /\ ~ResolvesTo(i, import.resolution.path)
       /\ ~ResolvesTo(i, import.module)
       /\ ~SomeCandidate(import.module)

\* C25: every edge comes from an import that resolves to an internal file
\* and targets that file; an import contributes at most one edge; an import
\* the resolver reports as external and an import no step resolves
\* contribute none; the edges are in the order of their imports; and with
\* trace_imports off there is no edge.
C25_EdgesOnlyForInternal ==
    Traced =>
        LET edges == imp_edges.edges
        IN /\ ~imp_call.trace_imports => edges = <<>>
           /\ \A j \in 1..Len(edges) :
                 /\ Len(edges[j].symbols) = 1
                 /\ edges[j].symbols[1] \in 1..Len(imp_call.imports)
                 /\ ResolvesTo(edges[j].symbols[1], edges[j].path)
           /\ \A j, k \in 1..Len(edges) :
                 j < k => edges[j].symbols[1] < edges[k].symbols[1]
           /\ \A i \in 1..Len(imp_call.imports) :
                 LET import == imp_call.imports[i]
                 IN /\ (/\ imp_call.has_resolver
                        /\ import.resolution.ok
                        /\ import.resolution.is_external) => EdgesFrom(i) = <<>>
                    /\ Unresolved(i) => EdgesFrom(i) = <<>>

\* An external import followed by an internal one: one edge, for the second.
C25_Witness ==
    /\ Traced
    /\ imp_call.trace_imports
    /\ imp_call.has_resolver
    /\ Len(imp_call.imports) = 2
    /\ imp_call.imports[1].resolution.ok
    /\ imp_call.imports[1].resolution.is_external
    /\ imp_call.imports[2].resolution.ok
    /\ ~imp_call.imports[2].resolution.is_external
    /\ imp_edges.edges =
          <<ImportEdge(imp_call.imports[2].resolution.path, <<2>>)>>

=============================================================================
